---- MODULE Spec2Model ----
(***************************************************************************)
(* Virtual-memory core of the Pintos kernel in this repository: the frame  *)
(* table with its clock hand (vm/frame.c), the swap store (vm/swap.c), the *)
(* supplemental page table and the fault resolver (vm/page.c), and the     *)
(* pin-for-I/O path of the system-call layer (userprog/syscall.c).         *)
(*                                                                         *)
(* Every Pintos user process has one thread, so a process and its thread   *)
(* are one element of Procs.  The kernel is preemptive: a thread can be    *)
(* preempted between any two instructions.  Everything a function does     *)
(* between lock_acquire (&frame_lock) and lock_release (&frame_lock) is    *)
(* one step; what it does outside the lock is cut into steps wherever it   *)
(* reads or writes state that another thread can write or read.            *)
(***************************************************************************)
EXTENDS Integers, Sequences, FiniteSets, TLC

\* ---------------------------------------------------------------- bounds
NumProcs == 2
NumUPages == 2
NumFrames == 1
NumSlots == 2
MaxByte == 1

Procs == 1..NumProcs
UPages == 1..NumUPages
Frames == 1..NumFrames          \* kernel pages of the user pool
Slots == 0..(NumSlots - 1)      \* swap_size slots, bitmap indices
Bytes == 1..MaxByte             \* what a store puts into a page
Zero == 0                       \* contents of a zero-filled page
Junk == MaxByte + 1             \* 0xcc, the fill of a page that was freed

NULL == 0
NoThread == 0

MaxMmapId == 3                  \* sys_mmap is not called for a larger id
MaxFd == 4                      \* sys_open is not called for a larger fd
MaxTicks == 4                   \* the timer is followed up to this tick
MaxSleep == 2                   \* alarm_set is not called for more ticks

VARIABLES
    frame_list,      \* frame_list / frame_hash: sequence of frame_table_entry
    clock_ptr,       \* the clock hand
    filesys_lock,    \* holder of filesys_lock, or NoThread
    frame_lock,      \* holder of frame_lock, or NoThread
    pool,            \* free pages of the physical user pool
    mem,             \* contents of each physical frame
    kdirty,          \* dirty bit of the kernel alias of each frame
    swap_available,  \* the swap bitmap: TRUE = slot is free
    swap_data,       \* contents of each swap slot
    supt,            \* per process: upage -> supplemental_page_table_entry
    pagedir,         \* per process: upage -> page-table entry
    pc,              \* per thread: position in the kernel code
    loc,             \* per thread: local variables of the running functions
    halted,          \* "" while the kernel runs, else the PANIC / ASSERT hit
    logical,         \* per process and upage: what the user last stored
    workload,        \* what the user programs do, fixed at boot
    file,            \* per process: the pages of the file it maps
    mmap_list,       \* per process: its mmap descriptors
    last_mid,        \* per process: the last id that sys_mmap returned,
                     \* recorded for the programs of "mmap_ids"
    file_descriptors, \* per thread: its open file descriptors
    alarm_list,      \* the threads whose alrm.elem is on alarm_list, in order
    alrm,            \* per thread: its struct alarm
    timer_ticks,     \* what timer_ticks () returns
    thread_status    \* per thread: "READY" (running or ready) or "BLOCKED"

vars == <<frame_list, clock_ptr, filesys_lock, frame_lock, pool, mem, kdirty,
          swap_available, swap_data, supt, pagedir, pc, loc, halted, logical,
          workload, file, mmap_list, last_mid, file_descriptors, alarm_list,
          alrm, timer_ticks, thread_status>>

\* ---------------------------------------------------------------- records
NoEntry == [status |-> "NONE", kpage |-> NULL, is_dirty |-> FALSE,
            swap_index |-> 0, file_offset |-> 0, writable |-> TRUE]

NoPte == [present |-> FALSE, kpage |-> NULL, writable |-> FALSE,
          accessed |-> FALSE, dirty |-> FALSE]

\* struct alarm before alarm_set has filled it in
NoAlarm == [thrd |-> NoThread, ticks |-> 0]

\* frame_evicted of vm_frame_alloc, with what was true of it when the scan
\* returned it: busy = a vm_load_page was still between vm_frame_alloc and
\* vm_frame_unpin on that frame, owner_accessed = the accessed bit of its
\* upage in its owner's page directory
NoVictim == [kpage |-> NULL, upage |-> 0, t |-> NoThread, is_pinned |-> FALSE,
             busy |-> FALSE, owner_accessed |-> FALSE]

\* the locals of the running call: upage, frame_page and the caller of
\* vm_load_page; first..last and idx of preload_and_pin_pages and of
\* sys_munmap, and the latter's mid; is_dirty and swap_idx of an eviction
\* that vm_frame_alloc is in the middle of; of the last
\* frame_to_be_evicted its i (entries inspected), n, how many of the
\* inspections read the list sentinel, and the victim; ok is what the last
\* vm_load_page returned to preload_and_pin_pages; fd is the argument of a
\* system call that looks up a file descriptor
NoLoc == [upage |-> 0, kpage |-> NULL, cont |-> "", ok |-> "", first |-> 0,
          last |-> 0, idx |-> 0, mid |-> 0, i |-> 0, n |-> 0, sentinel |-> 0,
          victim |-> NoVictim, is_dirty |-> FALSE, swap_idx |-> 0, fd |-> 0]

HandNull == [at |-> "NULL", kpage |-> NULL]
HandEnd == [at |-> "END", kpage |-> NULL]
HandFreed == [at |-> "FREED", kpage |-> NULL]
HandAt(k) == [at |-> "ENTRY", kpage |-> k]

\* ---------------------------------------------------------------- helpers
Min(S) == CHOOSE x \in S : \A y \in S : x <= y

\* hash_find (&frame_hash, kpage): index of the entry in frame_list, 0 if none
FrameIndex(list, k) ==
    IF \E j \in 1..Len(list) : list[j].kpage = k
    THEN CHOOSE j \in 1..Len(list) : list[j].kpage = k
    ELSE 0

RemoveAt(list, j) == SubSeq(list, 1, j - 1) \o SubSeq(list, j + 1, Len(list))

\* The user programs of a run.  "io": every process has one page and reads
\* files into it.  "exec": every process has one page, a read-only page of
\* its executable.  "mmap" and "paging": process 1 has one page, every other
\* process NumUPages pages; in "mmap" the programs load, store, and map and
\* unmap their file, in "paging" they only load and store.
Workloads == {"exec", "io", "mmap", "paging"}

\* The workloads in which lock_acquire (&frame_lock) is a step of its own
\* and vm_frame_alloc runs in several steps; in the others every section
\* under frame_lock is one step, taken while nobody holds the lock.  Every
\* process has one page; in "io_steps" the programs read files into it, in
\* "mmap_steps" they map and unmap their file.
StepWorkloads == {"io_steps", "mmap_steps"}

PagesOf(w, p) ==
    IF w \in {"mmap_ids", "supt"} THEN UPages
    ELSE IF w \in {"exec", "io"} \cup StepWorkloads \/ p = 1 THEN {1}
    ELSE UPages

\* The files a process can have: a sequence of pages.  In "exec" the file
\* is the executable, in "mmap" the file that is mapped; there process 1 has
\* none (it only loads and stores) and the file of every other process fills
\* its address space.  The programs of "io" and "paging" use no file.  In
\* "mmap_ids" every process has NumUPages pages and a file of one page,
\* which it maps and unmaps, at several addresses at a time, without
\* touching the pages.  In "supt" the functions of page.c are called one by
\* one on the tables of processes with NumUPages pages, and the file is an
\* executable that fills the address space.
FilesOf(w, p) ==
    IF w = "mmap_ids" THEN [1..1 -> Bytes]
    ELSE IF w \in {"exec", "supt"} \/ (w \in {"mmap", "mmap_steps"} /\ p # 1)
    THEN [1..Cardinality(PagesOf(w, p)) -> Bytes]
    ELSE {<<>>}

Init ==
    /\ workload \in Workloads
    /\ frame_list = <<>>
    /\ clock_ptr = HandNull
    /\ filesys_lock = NoThread
    /\ frame_lock = NoThread
    /\ pool = Frames
    /\ mem = [k \in Frames |-> Junk]
    /\ kdirty = [k \in Frames |-> FALSE]
    /\ swap_available = [s \in Slots |-> TRUE]
    /\ swap_data = [s \in Slots |-> Junk]
    /\ supt = [p \in Procs |-> [u \in UPages |-> NoEntry]]
    /\ pagedir = [p \in Procs |-> [u \in UPages |-> NoPte]]
    /\ pc = [p \in Procs |-> "idle"]
    /\ loc = [p \in Procs |-> NoLoc]
    /\ halted = ""
    /\ logical = [p \in Procs |-> [u \in UPages |-> Zero]]
    /\ file \in {f \in [Procs -> UNION {[1..n -> Bytes] : n \in 0..NumUPages}] :
                    \A p \in Procs : f[p] \in FilesOf(workload, p)}
    /\ mmap_list = [p \in Procs |-> <<>>]
    /\ last_mid = [p \in Procs |-> 0]
    /\ file_descriptors = [p \in Procs |-> <<>>]
    /\ alarm_list = <<>>
    /\ alrm = [p \in Procs |-> NoAlarm]
    /\ timer_ticks = 0
    /\ thread_status = [p \in Procs |-> "READY"]

\* ------------------------------------------------ external collaborators
\* palloc_get_page (PAL_USER): first-fit over the pool bitmap
palloc_get_page(free) == Min(free)

\* palloc_free_page: the page returns to the pool; palloc fills a freed page
\* with 0xcc through its kernel address, which also sets the alias's dirty bit
palloc_free_mem(m, ks) == [k \in Frames |-> IF k \in ks THEN Junk ELSE m[k]]

palloc_free_dirty(d, ks) == [k \in Frames |-> IF k \in ks THEN TRUE ELSE d[k]]

\* pagedir_clear_page: marks the entry not present.  The accessed bit stays
\* readable.  So does the dirty bit in the hardware entry; its one reader is
\* vm_frame_alloc, right after the clear and under the same lock (Evict takes
\* it from the entry as it was), and pagedir_set_page overwrites it before
\* the next read, so the cleared entry does not carry it.
pagedir_clear_page(pte) ==
    [pte EXCEPT !.present = FALSE, !.kpage = NULL, !.writable = FALSE,
                !.dirty = FALSE]

\* pagedir_set_page: a fresh present entry, accessed and dirty clear
pagedir_set_page(k, w) ==
    [present |-> TRUE, kpage |-> k, writable |-> w,
     accessed |-> FALSE, dirty |-> FALSE]

\* ---------------------------------------------------------- swap store
\* swap_data holds the sectors of the occupied slots.  The sectors of a free
\* slot are never read (vm_swap_in stops the kernel first), so they are kept
\* as Junk.

\* a faulty variant of bitmap_scan: the highest free slot
bitmap_scan_highest(avail) ==
    IF \E s \in Slots : avail[s]
    THEN CHOOSE s \in Slots : avail[s] /\ \A t \in Slots : avail[t] => t <= s
    ELSE -1

\* bitmap_scan (swap_available, 0, 1, true): lowest free slot; BITMAP_ERROR
\* (modelled as -1) if there is none
bitmap_scan(avail) ==
    IF \E s \in Slots : avail[s]
    THEN Min({s \in Slots : avail[s]})
    ELSE -1

\* a faulty variant of swap_occupied: the bitmap is not tested
swap_occupied_untested(avail, s) == s \in Slots

\* vm_swap_in and vm_swap_free: the slot must be occupied
swap_occupied(avail, s) == s \in Slots /\ ~avail[s]

\* ---------------------------------------------------------- frame table
\* the entry vm_frame_alloc inserts
new_frame_entry(k, u, p) ==
    [kpage |-> k, upage |-> u, t |-> p, is_pinned |-> TRUE]

\* hash_insert + list_push_back
frame_insert(list, e) == Append(list, e)

\* vm_frame_do_free: hash_delete + list_remove.  clock_ptr is not touched by
\* the code; if it pointed at the removed entry it now points at freed memory.
frame_remove(list, k) == RemoveAt(list, FrameIndex(list, k))

hand_after_remove(hand, k) ==
    IF hand.at = "ENTRY" /\ hand.kpage = k THEN HandFreed ELSE hand

\* vm_frame_set_pinned, the entry exists
frame_set_pinned(list, k, v) ==
    [list EXCEPT ![FrameIndex(list, k)].is_pinned = v]

\* clock_frame_next for a hand that is NULL, list_end or a live entry.
\* From the last entry list_next yields the tail sentinel (list_end), which
\* the caller then reads through list_entry as if it were an entry.
clock_frame_next(list, hand) ==
    IF hand.at \in {"NULL", "END"}
    THEN HandAt(list[1].kpage)
    ELSE LET j == FrameIndex(list, hand.kpage)
         IN  IF j < Len(list) THEN HandAt(list[j + 1].kpage) ELSE HandEnd

\* Where clock_frame_next can take the hand.  A hand left on a freed entry is
\* a dangling pointer: list_next reads freed memory, which malloc may have
\* handed out again, so the hand lands on any entry or on the sentinel (or
\* list_next's assertion stops the kernel, see frame_to_be_evicted).
clock_frame_next_set(list, hand) ==
    IF hand.at = "FREED"
    THEN {HandAt(list[j].kpage) : j \in 1..Len(list)} \cup {HandEnd}
    ELSE {clock_frame_next(list, hand)}

\* a faulty variant of scan_limit: one more iteration
scan_limit_one_more(n) == n * 2 + 1

\* the loop of frame_to_be_evicted runs while i <= n * 2
scan_limit(n) == n * 2

\* which page directory the scan consults: frame_to_be_evicted is passed
\* thread_current()->pagedir
scan_pagedir(cur, e) == cur

\* frame_to_be_evicted from iteration i on: the set of ways the scan can
\* end.  kind "victim": an entry is returned; "panic": the loop ran out;
\* "sentinel": the garbage read through list_entry (list_end) looked
\* unpinned and not accessed and is returned as the victim; "dangling":
\* list_next on freed memory stopped the kernel.  On a live entry (lines
\* 80-86): skip if pinned, clear and skip if accessed, else return it.  On the
\* sentinel is_pinned, upage and t are the words that lie next to frame_list
\* in the kernel's static data, none of them a user address of a process:
\* the read skips, or returns the sentinel.
RECURSIVE frame_to_be_evicted(_, _, _, _, _, _, _)
frame_to_be_evicted(cur, list, hand, pd, i, n, sentinel) ==
    LET done(kind, h, e) ==
            [kind |-> kind, hand |-> h, pd |-> pd, i |-> i + 1,
             sentinel |-> sentinel + (IF kind = "sentinel" THEN 1 ELSE 0),
             victim |-> e]
        on_entry(h) ==
            LET e == list[FrameIndex(list, h.kpage)]
                d == scan_pagedir(cur, e)
            IN  IF e.is_pinned
                THEN frame_to_be_evicted(cur, list, h, pd, i + 1, n, sentinel)
                ELSE IF pd[d][e.upage].accessed
                THEN frame_to_be_evicted(cur, list, h,
                        [pd EXCEPT ![d][e.upage].accessed = FALSE],
                        i + 1, n, sentinel)
                ELSE {done("victim", h, e)}
        on_sentinel ==
            frame_to_be_evicted(cur, list, HandEnd, pd, i + 1, n, sentinel + 1)
            \cup {done("sentinel", HandEnd, list[1])}
    IN  IF i > scan_limit(n)
        THEN {[kind |-> "panic", hand |-> hand, pd |-> pd, i |-> i,
               sentinel |-> sentinel, victim |-> list[1]]}
        ELSE UNION {IF h.at = "ENTRY" THEN on_entry(h) ELSE on_sentinel :
                    h \in clock_frame_next_set(list, hand)}
             \cup (IF hand.at = "FREED"
                   THEN {done("dangling", hand, list[1])}
                   ELSE {})

\* a faulty variant of spte_set_swap: the dirty flag is cleared as well
spte_set_swap_clean(spte, s) ==
    [spte EXCEPT !.kpage = NULL, !.status = "ON_SWAP", !.swap_index = s,
                 !.is_dirty = FALSE]

\* ------------------------------------------------------------- SPT
\* vm_supt_set_swap on an existing entry
spte_set_swap(spte, s) ==
    [spte EXCEPT !.kpage = NULL, !.status = "ON_SWAP", !.swap_index = s]

\* a faulty variant of spte_set_dirty: the new value replaces the old one
spte_set_dirty_overwrite(spte, v) == [spte EXCEPT !.is_dirty = v]

\* vm_supt_set_dirty on an existing entry
spte_set_dirty(spte, v) == [spte EXCEPT !.is_dirty = @ \/ v]

\* a faulty variant of spte_set_frame: the status changes, kpage does not
spte_set_frame_without_kpage(spte, k) ==
    [spte EXCEPT !.status = "ON_FRAME", !.swap_index = 0]

\* vm_load_page, lines 197-198.  The code leaves swap_index as it was; the
\* field is read only while status = ON_SWAP, and vm_supt_set_swap writes it
\* on that transition, so the stale value is not carried along.
spte_set_frame(spte, k) ==
    [spte EXCEPT !.kpage = k, !.status = "ON_FRAME", !.swap_index = 0]

\* ---------------------------------------------------------- PANIC
Running == halted = ""

\* PANIC or a failed ASSERT: the kernel stops where it is
Halt(why) ==
    /\ halted' = why
    /\ UNCHANGED <<frame_list, clock_ptr, filesys_lock, frame_lock, pool, mem,
                   kdirty, swap_available, swap_data, supt, pagedir, pc, loc,
                   logical, workload, file, mmap_list, last_mid,
                   file_descriptors, alarm_list, alrm, timer_ticks,
                   thread_status>>

\* ------------------------------------------------ frame_lock
\* the body of a section under frame_lock can run
FrameLockHeld(p) ==
    frame_lock = (IF workload \in StepWorkloads THEN p ELSE NoThread)

\* a faulty variant of frame_lock_release: the lock is kept
frame_lock_release_skipped(p) == p

\* lock_release (&frame_lock): the holder after it
frame_lock_release(p) == NoThread

\* ------------------------------------------------ vm_load_page, the return
\* Where the caller of vm_load_page continues.  The page-fault handler kills
\* the process when the resolver fails, and goes back to the faulting
\* instruction (user code, or the copy of file_read or file_write_at) when it
\* succeeds; preload_and_pin_pages ignores the result and goes on to
\* vm_pin_page.
ReturnPc(cont, ok) ==
    CASE cont = "fault" -> IF ok THEN "idle" ELSE "exit"
      [] cont = "preload" -> "pin_check"
      [] cont = "io" -> IF ok THEN "io" ELSE "exit"
      [] cont = "mun_write" -> IF ok THEN "mun_write" ELSE "exit"

ReturnLoc(p, cont, ok) ==
    IF cont = "fault" \/ (~ok /\ cont \in {"io", "mun_write"})
    THEN NoLoc
    ELSE [loc[p] EXCEPT !.upage = 0, !.cont = "",
                        !.kpage = IF cont = "preload" THEN @ ELSE NULL,
                        !.i = 0, !.n = 0, !.sentinel = 0, !.victim = NoVictim,
                        !.ok = IF cont # "preload" THEN ""
                               ELSE IF ok THEN "true" ELSE "false"]

\* a process killed inside a system call gives up filesys_lock
\* (fail_invalid_access)
ReturnFsLock(p, cont, ok) ==
    IF ~ok /\ cont \in {"io", "mun_write"} /\ filesys_lock = p THEN NoThread
    ELSE filesys_lock

\* ------------------------------------------------ vm_frame_alloc
\* a vm_load_page is between vm_frame_alloc and its last frame operation on
\* the frame of entry e
LoadInProgress(e) ==
    \E q \in Procs :
        /\ pc[q] \in {"lp_fill", "lp_unpin", "lp_free"}
        /\ loc[q].kpage = e.kpage
        /\ e.t = q
        /\ e.upage = loc[q].upage

\* the scan ended without a usable victim: the kernel stops, the hand and
\* the accessed bits are where the scan left them
ScanHalt(p, o, why) ==
    /\ halted' = why
    /\ clock_ptr' = o.hand
    /\ pagedir' = o.pd
    /\ loc' = [loc EXCEPT ![p].i = o.i, ![p].n = Len(frame_list),
                          ![p].sentinel = o.sentinel]
    /\ UNCHANGED <<frame_list, filesys_lock, frame_lock, pool, mem, kdirty,
                   swap_available, swap_data, supt, pc, logical, workload,
                   file, mmap_list, last_mid, file_descriptors, alarm_list,
                   alrm, timer_ticks, thread_status>>

\* lines 150-181 for the victim the scan returned: unmap it from its owner,
\* write it to swap, switch the owner's SPT entry to ON_SWAP, free the entry
\* and the page, take the page again and insert the new entry
Evict(p, u, cont, o) ==
    LET e == o.victim
        is_dirty == o.pd[e.t][e.upage].dirty \/ kdirty[e.kpage]
        s == bitmap_scan(swap_available)
        freed == pool \cup {e.kpage}
        k == palloc_get_page(freed)
    IN  IF s = -1
        THEN ScanHalt(p, o, "swap is full")
        ELSE IF supt[e.t][e.upage].status = "NONE"
        THEN ScanHalt(p, o, "Request page does not exist")
        ELSE /\ pagedir' = [o.pd EXCEPT
                    ![e.t][e.upage] = pagedir_clear_page(@)]
             /\ swap_data' = [swap_data EXCEPT ![s] = mem[e.kpage]]
             /\ swap_available' = [swap_available EXCEPT ![s] = FALSE]
             /\ supt' = [supt EXCEPT ![e.t][e.upage] =
                    spte_set_dirty(spte_set_swap(@, s), is_dirty)]
             /\ clock_ptr' = hand_after_remove(o.hand, e.kpage)
             /\ pool' = freed \ {k}
             /\ mem' = palloc_free_mem(mem, {e.kpage})
             /\ kdirty' = palloc_free_dirty(kdirty, {e.kpage})
             /\ loc' = [loc EXCEPT ![p] =
                    [@ EXCEPT !.upage = u, !.kpage = k, !.cont = cont,
                              !.i = o.i, !.n = Len(frame_list),
                              !.sentinel = o.sentinel,
                              !.victim = [kpage |-> e.kpage, upage |-> e.upage,
                                          t |-> e.t, is_pinned |-> e.is_pinned,
                                          busy |-> LoadInProgress(e),
                                          owner_accessed |->
                                              o.pd[e.t][e.upage].accessed]]]
             /\ \/ /\ frame_list' =
                          frame_insert(frame_remove(frame_list, e.kpage),
                                       new_frame_entry(k, u, p))
                   /\ pc' = [pc EXCEPT ![p] = "lp_fill"]
                \/ /\ frame_list' = frame_remove(frame_list, e.kpage)
                   /\ pc' = [pc EXCEPT ![p] = "lp_nomem"]
             /\ frame_lock' = frame_lock_release(p)
             /\ UNCHANGED <<filesys_lock, halted, logical, workload, file,
                            mmap_list, last_mid, file_descriptors, alarm_list,
                            alrm, timer_ticks, thread_status>>

\* lines 150-156 for the victim the scan returned, when the eviction runs in
\* steps: unmap it from its owner, read its dirty bits, write it to swap
vm_frame_alloc_swap_out(p, u, cont, o) ==
    LET e == o.victim
        s == bitmap_scan(swap_available)
    IN  IF s = -1
        THEN ScanHalt(p, o, "swap is full")
        ELSE /\ pagedir' = [o.pd EXCEPT
                    ![e.t][e.upage] = pagedir_clear_page(@)]
             /\ swap_data' = [swap_data EXCEPT ![s] = mem[e.kpage]]
             /\ swap_available' = [swap_available EXCEPT ![s] = FALSE]
             /\ clock_ptr' = o.hand
             /\ loc' = [loc EXCEPT ![p] =
                    [@ EXCEPT !.i = o.i, !.n = Len(frame_list),
                              !.sentinel = o.sentinel,
                              !.is_dirty = o.pd[e.t][e.upage].dirty
                                               \/ kdirty[e.kpage],
                              !.swap_idx = s,
                              !.victim = [kpage |-> e.kpage, upage |-> e.upage,
                                          t |-> e.t, is_pinned |-> e.is_pinned,
                                          busy |-> LoadInProgress(e),
                                          owner_accessed |->
                                              o.pd[e.t][e.upage].accessed]]]
             /\ pc' = [pc EXCEPT ![p] = "fa_set_swap"]
             /\ UNCHANGED <<frame_list, filesys_lock, frame_lock, pool, mem,
                            kdirty, supt, halted, logical, workload, file,
                            mmap_list, last_mid, file_descriptors, alarm_list,
                            alrm, timer_ticks, thread_status>>

\* vm_frame_alloc (PAL_USER, upage), lines 144-181, under frame_lock.  The
\* malloc of the new entry can fail (lines 165-169): the lock is released
\* and NULL returned, with frame_page neither inserted nor freed; loc.kpage
\* keeps the page that vm_frame_alloc's local held.
vm_frame_alloc(p, u, cont) ==
    IF pool # {}
    THEN LET k == palloc_get_page(pool)
         IN  /\ pool' = pool \ {k}
             /\ loc' = [loc EXCEPT ![p].upage = u, ![p].kpage = k,
                                   ![p].cont = cont]
             /\ \/ /\ frame_list' =
                          frame_insert(frame_list, new_frame_entry(k, u, p))
                   /\ pc' = [pc EXCEPT ![p] = "lp_fill"]
                \/ /\ pc' = [pc EXCEPT ![p] = "lp_nomem"]
                   /\ UNCHANGED frame_list
             /\ frame_lock' = frame_lock_release(p)
             /\ UNCHANGED <<clock_ptr, filesys_lock, mem, kdirty,
                            swap_available, swap_data, supt, pagedir, halted,
                            logical, workload, file, mmap_list, last_mid,
                            file_descriptors, alarm_list, alrm, timer_ticks,
                            thread_status>>
    ELSE IF Len(frame_list) = 0
    THEN Halt("Evict rejected, frame table is now empty")
    ELSE \E o \in frame_to_be_evicted(p, frame_list, clock_ptr, pagedir,
                                      0, Len(frame_list), 0) :
            CASE o.kind = "victim" ->
                    IF workload \in StepWorkloads
                    THEN vm_frame_alloc_swap_out(p, u, cont, o)
                    ELSE Evict(p, u, cont, o)
              [] o.kind = "panic" -> ScanHalt(p, o, "Cannot evict any frame")
              [] o.kind = "sentinel" ->
                    ScanHalt(p, o, "the victim is the list sentinel")
              [] o.kind = "dangling" ->
                    ScanHalt(p, o, "clock_ptr points at a freed entry")

\* line 144, when lock_acquire is a step of its own: the thread is about to
\* call lock_acquire (&frame_lock)
vm_frame_alloc_enter(p, u, cont) ==
    /\ pc' = [pc EXCEPT ![p] = "fa_lock"]
    /\ loc' = [loc EXCEPT ![p].upage = u, ![p].cont = cont]
    /\ UNCHANGED <<frame_list, clock_ptr, filesys_lock, frame_lock, pool, mem,
                   kdirty, swap_available, swap_data, supt, pagedir, halted,
                   logical, workload, file, mmap_list, last_mid,
                   file_descriptors, alarm_list, alrm, timer_ticks,
                   thread_status>>

\* where a thread is about to call lock_acquire (&frame_lock): at the entry
\* of vm_frame_alloc, vm_frame_free, vm_frame_remove_entry and
\* vm_frame_set_pinned
FrameLockPcs == {"fa_lock", "lp_free", "lp_unpin", "pin_set", "unpin_set",
                 "mun_pin", "mun_free", "td_remove"}

\* lock_acquire (&frame_lock) returns: nobody held the lock
lock_acquire_frame_lock(p) ==
    /\ Running
    /\ workload \in StepWorkloads
    /\ pc[p] \in FrameLockPcs
    /\ frame_lock = NoThread
    /\ frame_lock' = p
    /\ UNCHANGED <<frame_list, clock_ptr, filesys_lock, pool, mem, kdirty,
                   swap_available, swap_data, supt, pagedir, pc, loc, halted,
                   logical, workload, file, mmap_list, last_mid,
                   file_descriptors, alarm_list, alrm, timer_ticks,
                   thread_status>>

\* vm_frame_alloc under the lock, lines 146-156: palloc_get_page and, when
\* it found a page, the rest of the function; else the scan and the first
\* steps of the eviction
vm_frame_alloc_locked(p) ==
    /\ Running
    /\ pc[p] = "fa_lock"
    /\ frame_lock = p
    /\ vm_frame_alloc(p, loc[p].upage, loc[p].cont)

\* line 157, vm_supt_set_swap (page.c 95-105), and line 158,
\* vm_supt_set_dirty (page.c 147-155), on the victim's entry in its owner's
\* table
vm_frame_alloc_set_swap(p) ==
    /\ Running
    /\ pc[p] = "fa_set_swap"
    /\ frame_lock = p
    /\ LET e == loc[p].victim
       IN  IF supt[e.t][e.upage].status = "NONE"
           THEN Halt("Request page does not exist")
           ELSE /\ supt' = [supt EXCEPT ![e.t][e.upage] =
                       spte_set_dirty(spte_set_swap(@, loc[p].swap_idx),
                                      loc[p].is_dirty)]
                /\ pc' = [pc EXCEPT ![p] = "fa_free"]
                /\ UNCHANGED <<frame_list, clock_ptr, filesys_lock, frame_lock,
                               pool, mem, kdirty, swap_available, swap_data,
                               pagedir, loc, halted, logical, workload, file,
                               mmap_list, last_mid, file_descriptors,
                               alarm_list, alrm, timer_ticks, thread_status>>

\* lines 159-181: vm_frame_do_free of the victim, palloc_get_page, the new
\* entry (or the failure of its malloc), lock_release
vm_frame_alloc_insert(p) ==
    /\ Running
    /\ pc[p] = "fa_free"
    /\ frame_lock = p
    /\ LET e == loc[p].victim
           freed == pool \cup {e.kpage}
           k == palloc_get_page(freed)
       IN  IF FrameIndex(frame_list, e.kpage) = 0
           THEN Halt("The page to be freed does not exist")
           ELSE /\ clock_ptr' = hand_after_remove(clock_ptr, e.kpage)
                /\ pool' = freed \ {k}
                /\ mem' = palloc_free_mem(mem, {e.kpage})
                /\ kdirty' = palloc_free_dirty(kdirty, {e.kpage})
                /\ loc' = [loc EXCEPT ![p].kpage = k, ![p].is_dirty = FALSE,
                                      ![p].swap_idx = 0]
                /\ \/ /\ frame_list' =
                             frame_insert(frame_remove(frame_list, e.kpage),
                                          new_frame_entry(k, loc[p].upage, p))
                      /\ pc' = [pc EXCEPT ![p] = "lp_fill"]
                   \/ /\ frame_list' = frame_remove(frame_list, e.kpage)
                      /\ pc' = [pc EXCEPT ![p] = "lp_nomem"]
                /\ frame_lock' = frame_lock_release(p)
                /\ UNCHANGED <<filesys_lock, swap_available, swap_data, supt,
                               pagedir, halted, logical, workload, file,
                               mmap_list, last_mid, file_descriptors,
                               alarm_list, alrm, timer_ticks, thread_status>>

\* ------------------------------------------------ vm_load_page
\* a faulty variant of load_page_resident: the early return is never taken
load_page_resident_never(spte) == FALSE

\* line 162: the page is resident already
load_page_resident(spte) == spte.status = "ON_FRAME"

\* vm_load_page, lines 158-169: the lookup, the two early returns, which
\* change nothing, and otherwise vm_frame_alloc.  The entry is the caller's
\* own and is not ON_FRAME, so no other thread writes it before the lock is
\* taken.
vm_load_page(p, u, cont) ==
    LET spte == supt[p][u]
    IN  IF spte.status = "NONE" \/ load_page_resident(spte)
        THEN LET ok == spte.status # "NONE"
             IN  /\ pc' = [pc EXCEPT ![p] = ReturnPc(cont, ok)]
                 /\ loc' = [loc EXCEPT ![p] = ReturnLoc(p, cont, ok)]
                 /\ filesys_lock' = ReturnFsLock(p, cont, ok)
                 /\ UNCHANGED <<frame_list, clock_ptr, pool, mem, kdirty,
                                swap_available, swap_data, supt, pagedir,
                                halted, logical, frame_lock, workload, file,
                                mmap_list, last_mid, file_descriptors,
                                alarm_list, alrm, timer_ticks, thread_status>>
        ELSE IF workload \in StepWorkloads
        THEN vm_frame_alloc_enter(p, u, cont)
        ELSE vm_frame_alloc(p, u, cont)

\* a user-mode access to a page that is not present: page_fault calls
\* vm_load_page (curr->supt, curr->pagedir, fault_page)
page_fault(p, u) ==
    /\ Running
    /\ pc[p] = "idle"
    /\ ~pagedir[p][u].present
    /\ vm_load_page(p, u, "fault")

\* lines 171-200 after vm_frame_alloc returned frame_page: fill the frame by
\* the entry's status, install the mapping, mark the entry ON_FRAME, clear
\* the kernel alias's dirty bit.  The second disjunct is the two failure
\* paths: pagedir_set_page returned false (no memory for a page table), or
\* the entry is FROM_FILESYS and file_read returned fewer than read_bytes;
\* the frame is then freed in vm_load_page_free.
vm_load_page_fill(p) ==
    /\ Running
    /\ pc[p] = "lp_fill"
    /\ LET u == loc[p].upage
           k == loc[p].kpage
           spte == supt[p][u]
           from_swap == spte.status = "ON_SWAP"
           content == CASE from_swap -> swap_data[spte.swap_index]
                        [] spte.status = "ALL_ZEROS" -> Zero
                        [] spte.status = "FROM_FILESYS" ->
                               file[p][spte.file_offset + 1]
                        [] OTHER -> mem[k]
           writable == IF spte.status = "FROM_FILESYS" THEN spte.writable
                       ELSE TRUE
           l == [loc[p] EXCEPT !.i = 0, !.n = 0, !.sentinel = 0,
                               !.victim = NoVictim]
       IN  IF from_swap /\ ~swap_occupied(swap_available, spte.swap_index)
           THEN Halt("Invalid access to unassigned swap block")
           ELSE /\ mem' = [mem EXCEPT ![k] = content]
                /\ swap_available' =
                       IF from_swap
                       THEN [swap_available EXCEPT ![spte.swap_index] = TRUE]
                       ELSE swap_available
                /\ swap_data' =
                       IF from_swap
                       THEN [swap_data EXCEPT ![spte.swap_index] = Junk]
                       ELSE swap_data
                /\ loc' = [loc EXCEPT ![p] = l]
                /\ \/ /\ pagedir' = [pagedir EXCEPT
                             ![p][u] = pagedir_set_page(k, writable)]
                      /\ supt' = [supt EXCEPT ![p][u] = spte_set_frame(@, k)]
                      /\ kdirty' = [kdirty EXCEPT ![k] = FALSE]
                      /\ pc' = [pc EXCEPT ![p] = "lp_unpin"]
                   \/ /\ kdirty' = [kdirty EXCEPT ![k] =
                             @ \/ spte.status # "ON_FRAME"]
                      /\ pc' = [pc EXCEPT ![p] = "lp_free"]
                      /\ UNCHANGED <<pagedir, supt>>
                /\ UNCHANGED <<frame_list, clock_ptr, filesys_lock, frame_lock,
                               pool, halted, logical, workload, file,
                               mmap_list, last_mid, file_descriptors,
                               alarm_list, alrm, timer_ticks, thread_status>>

\* lines 166-168: vm_frame_alloc returned NULL, vm_load_page returns false
vm_load_page_nomem(p) ==
    /\ Running
    /\ pc[p] = "lp_nomem"
    /\ pc' = [pc EXCEPT ![p] = ReturnPc(loc[p].cont, FALSE)]
    /\ loc' = [loc EXCEPT ![p] = ReturnLoc(p, loc[p].cont, FALSE)]
    /\ filesys_lock' = ReturnFsLock(p, loc[p].cont, FALSE)
    /\ UNCHANGED <<frame_list, clock_ptr, pool, mem, kdirty, swap_available,
                   swap_data, supt, pagedir, halted, logical, frame_lock,
                   workload, file, mmap_list, last_mid, file_descriptors,
                   alarm_list, alrm, timer_ticks, thread_status>>

\* vm_frame_free (frame_page) on the failure paths, then return false
vm_load_page_free(p) ==
    /\ Running
    /\ pc[p] = "lp_free"
    /\ FrameLockHeld(p)
    /\ LET k == loc[p].kpage
       IN  IF FrameIndex(frame_list, k) = 0
           THEN Halt("The page to be freed does not exist")
           ELSE /\ frame_list' = frame_remove(frame_list, k)
                /\ clock_ptr' = hand_after_remove(clock_ptr, k)
                /\ pool' = pool \cup {k}
                /\ mem' = palloc_free_mem(mem, {k})
                /\ kdirty' = palloc_free_dirty(kdirty, {k})
                /\ pc' = [pc EXCEPT ![p] = ReturnPc(loc[p].cont, FALSE)]
                /\ loc' = [loc EXCEPT ![p] = ReturnLoc(p, loc[p].cont, FALSE)]
                /\ filesys_lock' = ReturnFsLock(p, loc[p].cont, FALSE)
                /\ frame_lock' = frame_lock_release(p)
                /\ UNCHANGED <<swap_available, swap_data, supt, pagedir,
                               halted, logical, workload, file, mmap_list,
                               last_mid, file_descriptors, alarm_list, alrm,
                               timer_ticks, thread_status>>

\* vm_frame_unpin (frame_page), then return true
vm_load_page_unpin(p) ==
    /\ Running
    /\ pc[p] = "lp_unpin"
    /\ FrameLockHeld(p)
    /\ LET k == loc[p].kpage
       IN  IF FrameIndex(frame_list, k) = 0
           THEN Halt("The frame to be pinned of unpinned does not exist")
           ELSE /\ frame_list' = frame_set_pinned(frame_list, k, FALSE)
                /\ pc' = [pc EXCEPT ![p] = ReturnPc(loc[p].cont, TRUE)]
                /\ loc' = [loc EXCEPT ![p] = ReturnLoc(p, loc[p].cont, TRUE)]
                /\ frame_lock' = frame_lock_release(p)
                /\ UNCHANGED <<clock_ptr, filesys_lock, pool, mem, kdirty,
                               swap_available, swap_data, supt, pagedir,
                               halted, logical, workload, file, mmap_list,
                               last_mid, file_descriptors, alarm_list, alrm,
                               timer_ticks, thread_status>>

\* ------------------------------------------------ user mode
\* vm_supt_install_zeropage: a new ALL_ZEROS entry (stack growth, bss); the
\* callers install only where vm_supt_find found nothing
vm_supt_install_zeropage(p, u) ==
    /\ Running
    /\ pc[p] = "idle"
    /\ workload # "exec"
    /\ u \in PagesOf(workload, p)
    /\ supt[p][u].status = "NONE"
    /\ supt' = [supt EXCEPT ![p][u] = [NoEntry EXCEPT !.status = "ALL_ZEROS"]]
    /\ logical' = [logical EXCEPT ![p][u] = Zero]
    /\ UNCHANGED <<frame_list, clock_ptr, filesys_lock, frame_lock, pool, mem,
                   kdirty, swap_available, swap_data, pagedir, pc, loc, halted,
                   workload, file, mmap_list, last_mid, file_descriptors,
                   alarm_list, alrm, timer_ticks, thread_status>>

\* vm_supt_install_filesys: the entry for the page at offset (in pages)
\* of the file, writable or not
filesys_entry(offset, w) ==
    [NoEntry EXCEPT !.status = "FROM_FILESYS", !.file_offset = offset,
                    !.writable = w]

\* vm_supt_install_filesys (.., writable = false) as the program loader
\* calls it for a read-only page of the executable: a FROM_FILESYS entry for
\* the page u, backed by the page u - 1 of the file
vm_supt_install_filesys(p, u) ==
    /\ Running
    /\ pc[p] = "idle"
    /\ workload \in {"exec", "supt"}
    /\ u \in PagesOf(workload, p)
    /\ supt[p][u].status = "NONE"
    /\ supt' = [supt EXCEPT ![p][u] = filesys_entry(u - 1, FALSE)]
    /\ logical' = [logical EXCEPT ![p][u] = file[p][u]]
    /\ UNCHANGED <<frame_list, clock_ptr, filesys_lock, frame_lock, pool, mem,
                   kdirty, swap_available, swap_data, pagedir, pc, loc, halted,
                   workload, file, mmap_list, last_mid, file_descriptors,
                   alarm_list, alrm, timer_ticks, thread_status>>

\* a user-mode load from a present page: the MMU sets the accessed bit
UserRead(p, u) ==
    /\ Running
    /\ pc[p] = "idle"
    /\ pagedir[p][u].present
    /\ ~pagedir[p][u].accessed
    /\ pagedir' = [pagedir EXCEPT ![p][u].accessed = TRUE]
    /\ UNCHANGED <<frame_list, clock_ptr, filesys_lock, frame_lock, pool, mem,
                   kdirty, swap_available, swap_data, supt, pc, loc, halted,
                   logical, workload, file, mmap_list, last_mid,
                   file_descriptors, alarm_list, alrm, timer_ticks,
                   thread_status>>

\* a user-mode store to a present writable page: the MMU sets accessed and
\* dirty, the frame takes the byte
UserWrite(p, u, b) ==
    /\ Running
    /\ pc[p] = "idle"
    /\ pagedir[p][u].present
    /\ pagedir[p][u].writable
    /\ pagedir' = [pagedir EXCEPT ![p][u].accessed = TRUE, ![p][u].dirty = TRUE]
    /\ mem' = [mem EXCEPT ![pagedir[p][u].kpage] = b]
    /\ logical' = [logical EXCEPT ![p][u] = b]
    /\ UNCHANGED <<frame_list, clock_ptr, filesys_lock, frame_lock, pool,
                   kdirty, swap_available, swap_data, supt, pc, loc, halted,
                   workload, file, mmap_list, last_mid, file_descriptors,
                   alarm_list, alrm, timer_ticks, thread_status>>

\* ------------------------------------------------ sys_read
\* The buffer covers the pages first..last.  check_user kills the process
\* unless the first and the last byte lie in pages that have SPT entries;
\* then filesys_lock is taken (lines 411-414).
sys_read(p, first, last) ==
    /\ Running
    /\ pc[p] = "idle"
    /\ workload \in {"io", "io_steps"}
    /\ first <= last
    /\ supt[p][first].status # "NONE"
    /\ supt[p][last].status # "NONE"
    /\ filesys_lock = NoThread
    /\ filesys_lock' = p
    /\ pc' = [pc EXCEPT ![p] = "preload"]
    /\ loc' = [loc EXCEPT ![p] =
           [NoLoc EXCEPT !.first = first, !.last = last, !.idx = first]]
    /\ UNCHANGED <<frame_list, clock_ptr, pool, mem, kdirty, swap_available,
                   swap_data, supt, pagedir, halted, logical, frame_lock,
                   workload, file, mmap_list, last_mid, file_descriptors,
                   alarm_list, alrm, timer_ticks, thread_status>>

\* preload_and_pin_pages, line 678: vm_load_page for the page loc.idx
preload_and_pin_pages(p) ==
    /\ Running
    /\ pc[p] = "preload"
    /\ vm_load_page(p, loc[p].idx, "preload")

\* the loop of preload_and_pin_pages moves on, or sys_read goes on to
\* file_read
AfterPin(p) ==
    IF loc[p].idx < loc[p].last
    THEN /\ pc' = [pc EXCEPT ![p] = "preload"]
         /\ loc' = [loc EXCEPT ![p].idx = @ + 1, ![p].kpage = NULL,
                               ![p].ok = ""]
    ELSE /\ pc' = [pc EXCEPT ![p] = "io"]
         /\ loc' = [loc EXCEPT ![p].idx = loc[p].first, ![p].kpage = NULL,
                               ![p].ok = ""]

\* vm_pin_page, lines 248-253: the lookup, the assertion, and the read of
\* spte->kpage that is passed to vm_frame_pin
vm_pin_page(p) ==
    /\ Running
    /\ pc[p] = "pin_check"
    /\ LET spte == supt[p][loc[p].idx]
       IN  IF spte.status = "NONE"
           THEN /\ AfterPin(p)
                /\ UNCHANGED <<frame_list, clock_ptr, filesys_lock, frame_lock,
                               pool, mem, kdirty, swap_available, swap_data,
                               supt, pagedir, halted, logical, workload, file,
                               mmap_list, last_mid, file_descriptors,
                               alarm_list, alrm, timer_ticks, thread_status>>
           ELSE IF spte.status # "ON_FRAME"
           THEN Halt("assertion spte->status == ON_FRAME failed")
           ELSE /\ pc' = [pc EXCEPT ![p] = "pin_set"]
                /\ loc' = [loc EXCEPT ![p].kpage = spte.kpage, ![p].ok = ""]
                /\ UNCHANGED <<frame_list, clock_ptr, filesys_lock, frame_lock,
                               pool, mem, kdirty, swap_available, swap_data,
                               supt, pagedir, halted, logical, workload, file,
                               mmap_list, last_mid, file_descriptors,
                               alarm_list, alrm, timer_ticks, thread_status>>

\* vm_frame_pin (kpage): vm_frame_set_pinned under the frame lock
vm_frame_pin(p) ==
    /\ Running
    /\ pc[p] = "pin_set"
    /\ FrameLockHeld(p)
    /\ IF FrameIndex(frame_list, loc[p].kpage) = 0
       THEN Halt("The frame to be pinned of unpinned does not exist")
       ELSE /\ frame_list' = frame_set_pinned(frame_list, loc[p].kpage, TRUE)
            /\ AfterPin(p)
            /\ frame_lock' = frame_lock_release(p)
            /\ UNCHANGED <<clock_ptr, filesys_lock, pool, mem, kdirty,
                           swap_available, swap_data, supt, pagedir, halted,
                           logical, workload, file, mmap_list, last_mid,
                           file_descriptors, alarm_list, alrm, timer_ticks,
                           thread_status>>


\* the pages of the buffer of the running sys_read
BufPages(p) == loc[p].first..loc[p].last

\* file_read (file, buffer, size) copies into the buffer through its user
\* addresses.  A buffer page that is not present faults in kernel mode and
\* the fault handler calls vm_load_page; a failed load ends the process.
\* With all pages present the copy stores b into each page, and the MMU sets
\* accessed and dirty.
file_read(p, b) ==
    /\ Running
    /\ pc[p] = "io"
    /\ IF \E u \in BufPages(p) : ~pagedir[p][u].present
       THEN vm_load_page(p, Min({u \in BufPages(p) : ~pagedir[p][u].present}),
                         "io")
       ELSE /\ pagedir' = [pagedir EXCEPT ![p] =
                   [u \in UPages |->
                       IF u \in BufPages(p)
                       THEN [pagedir[p][u] EXCEPT !.accessed = TRUE,
                                                  !.dirty = TRUE]
                       ELSE pagedir[p][u]]]
            /\ mem' = [k \in Frames |->
                   IF \E u \in BufPages(p) : pagedir[p][u].kpage = k
                   THEN b ELSE mem[k]]
            /\ logical' = [logical EXCEPT ![p] =
                   [u \in UPages |->
                       IF u \in BufPages(p) THEN b ELSE logical[p][u]]]
            /\ pc' = [pc EXCEPT ![p] = "unpin_check"]
            /\ UNCHANGED <<frame_list, clock_ptr, filesys_lock, frame_lock,
                           pool, kdirty, swap_available, swap_data, supt, loc,
                           halted, workload, file, mmap_list, last_mid,
                           file_descriptors, alarm_list, alrm, timer_ticks,
                           thread_status>>

\* the loop of unpin_preloaded_pages moves on, or sys_read releases
\* filesys_lock and returns
AfterUnpin(p) ==
    IF loc[p].idx < loc[p].last
    THEN /\ pc' = [pc EXCEPT ![p] = "unpin_check"]
         /\ loc' = [loc EXCEPT ![p].idx = @ + 1, ![p].kpage = NULL]
         /\ UNCHANGED filesys_lock
    ELSE /\ pc' = [pc EXCEPT ![p] = "idle"]
         /\ loc' = [loc EXCEPT ![p] = NoLoc]
         /\ filesys_lock' = NoThread

\* vm_unpin_page, lines 257-263: the lookup and the status test, and the
\* read of spte->kpage that is passed to vm_frame_unpin
vm_unpin_page(p) ==
    /\ Running
    /\ pc[p] = "unpin_check"
    /\ LET spte == supt[p][loc[p].idx]
       IN  IF spte.status = "NONE"
           THEN Halt("Request page does not exist")
           ELSE IF spte.status = "ON_FRAME"
           THEN /\ pc' = [pc EXCEPT ![p] = "unpin_set"]
                /\ loc' = [loc EXCEPT ![p].kpage = spte.kpage]
                /\ UNCHANGED <<frame_list, clock_ptr, filesys_lock, frame_lock,
                               pool, mem, kdirty, swap_available, swap_data,
                               supt, pagedir, halted, logical, workload, file,
                               mmap_list, last_mid, file_descriptors,
                               alarm_list, alrm, timer_ticks, thread_status>>
           ELSE /\ AfterUnpin(p)
                /\ UNCHANGED <<frame_list, clock_ptr, pool, mem, kdirty,
                               swap_available, swap_data, supt, pagedir,
                               halted, logical, frame_lock, workload, file,
                               mmap_list, last_mid, file_descriptors,
                               alarm_list, alrm, timer_ticks, thread_status>>

\* vm_frame_unpin (kpage): vm_frame_set_pinned under the frame lock
vm_frame_unpin(p) ==
    /\ Running
    /\ pc[p] = "unpin_set"
    /\ FrameLockHeld(p)
    /\ IF FrameIndex(frame_list, loc[p].kpage) = 0
       THEN Halt("The frame to be pinned of unpinned does not exist")
       ELSE /\ frame_list' = frame_set_pinned(frame_list, loc[p].kpage, FALSE)
            /\ AfterUnpin(p)
            /\ frame_lock' = frame_lock_release(p)
            /\ UNCHANGED <<clock_ptr, pool, mem, kdirty, swap_available,
                           swap_data, supt, pagedir, halted, logical, workload,
                           file, mmap_list, last_mid, file_descriptors,
                           alarm_list, alrm, timer_ticks, thread_status>>


\* ------------------------------------------------ mmap and munmap
\* the id sys_mmap gives the next mapping of a process (lines 602-607)
next_mmapid(list) == IF list = <<>> THEN 1 ELSE list[Len(list)].id + 1

\* the pages upage, upage + PGSIZE, ... that a file of n pages covers
mmap_range(u, n) == u..(u + n - 1)

\* a faulty variant of mmap_range_free: only the first page is looked at
mmap_range_free_first_page(spt, u, n) == spt[u].status = "NONE"

\* sys_mmap, lines 585-591: no page of the range has an SPT entry
mmap_range_free(spt, u, n) ==
    \A v \in mmap_range(u, n) : spt[v].status = "NONE"

\* sys_mmap, lines 593-600: a FROM_FILESYS entry for every page of the range
mmap_install(spt, u, n) ==
    [v \in UPages |->
        IF v \in mmap_range(u, n) THEN filesys_entry(v - u, TRUE) ELSE spt[v]]

\* sys_mmap (fd, upage) for the process's file, lines 559-618.  filesys_lock
\* is taken; if a page of the range has an SPT entry the call goes to
\* MMAP_FAIL, else it installs the entries, appends the descriptor, releases
\* the lock and returns the id.  Except in "mmap_ids" the programs keep one
\* mapping of their file at a time: with a mapping in place a further call
\* is made only where it overlaps.
sys_mmap(p, u) ==
    /\ Running
    /\ pc[p] = "idle"
    /\ workload \in {"mmap", "mmap_steps", "mmap_ids"}
    /\ Len(file[p]) > 0
    /\ mmap_range(u, Len(file[p])) \subseteq PagesOf(workload, p)
    /\ filesys_lock = NoThread
    /\ LET n == Len(file[p])
       IN  IF ~mmap_range_free(supt[p], u, n)
           THEN /\ filesys_lock' = p
                /\ pc' = [pc EXCEPT ![p] = "mmap_fail"]
                /\ loc' = [loc EXCEPT ![p] = [NoLoc EXCEPT !.upage = u]]
                /\ UNCHANGED <<supt, mmap_list, logical, last_mid>>
           ELSE /\ workload = "mmap_ids" \/ mmap_list[p] = <<>>
                /\ next_mmapid(mmap_list[p]) <= MaxMmapId
                /\ last_mid' = IF workload = "mmap_ids"
                               THEN [last_mid EXCEPT ![p] =
                                        next_mmapid(mmap_list[p])]
                               ELSE last_mid
                /\ supt' = [supt EXCEPT ![p] = mmap_install(@, u, n)]
                /\ mmap_list' = [mmap_list EXCEPT ![p] =
                       Append(@, [id |-> next_mmapid(@), addr |-> u,
                                  size |-> n])]
                /\ logical' = [logical EXCEPT ![p] =
                       [v \in UPages |->
                           IF v \in mmap_range(u, n) THEN file[p][v - u + 1]
                           ELSE @[v]]]
                /\ UNCHANGED <<filesys_lock, pc, loc>>
    /\ UNCHANGED <<frame_list, clock_ptr, pool, mem, kdirty, swap_available,
                   swap_data, pagedir, halted, frame_lock, workload, file,
                   file_descriptors, alarm_list, alrm, timer_ticks,
                   thread_status>>

\* MMAP_FAIL, lines 620-623: lock_release and return -1
sys_mmap_fail(p) ==
    /\ Running
    /\ pc[p] = "mmap_fail"
    /\ filesys_lock' = NoThread
    /\ pc' = [pc EXCEPT ![p] = "idle"]
    /\ loc' = [loc EXCEPT ![p] = NoLoc]
    /\ UNCHANGED <<frame_list, clock_ptr, pool, mem, kdirty, swap_available,
                   swap_data, supt, pagedir, halted, logical, frame_lock,
                   workload, file, mmap_list, last_mid, file_descriptors,
                   alarm_list, alrm, timer_ticks, thread_status>>

\* find_mmap_desc (t, mid), lines 654-669: the position in mmap_list of the
\* descriptor with that id, 0 for NULL
find_mmap_desc(list, mid) ==
    IF \E j \in 1..Len(list) : list[j].id = mid
    THEN CHOOSE j \in 1..Len(list) : list[j].id = mid
    ELSE 0

\* sys_munmap (mid), lines 626-640.  If find_mmap_desc finds no descriptor
\* the call is about to return false, with no lock taken; the programs of
\* "mmap" make no such call.  Else
\* filesys_lock is taken and the loop starts on the first page of the
\* mapping: loc.first..loc.last are the pages, loc.idx the page
\* vm_supt_munmap is working on.
sys_munmap(p, m) ==
    /\ Running
    /\ pc[p] = "idle"
    /\ workload \in {"mmap", "mmap_steps", "mmap_ids"}
    /\ LET j == find_mmap_desc(mmap_list[p], m)
       IN  IF j = 0
           THEN /\ workload # "mmap"
                /\ pc' = [pc EXCEPT ![p] = "munmap_false"]
                /\ loc' = [loc EXCEPT ![p] = [NoLoc EXCEPT !.mid = m]]
                /\ UNCHANGED filesys_lock
           ELSE /\ filesys_lock = NoThread
                /\ filesys_lock' = p
                /\ pc' = [pc EXCEPT ![p] = "mun_check"]
                /\ loc' = [loc EXCEPT ![p] =
                       [NoLoc EXCEPT !.mid = m,
                                     !.first = mmap_list[p][j].addr,
                                     !.idx = mmap_list[p][j].addr,
                                     !.last = mmap_list[p][j].addr
                                                  + mmap_list[p][j].size - 1]]
    /\ UNCHANGED <<frame_list, clock_ptr, pool, mem, kdirty, swap_available,
                   swap_data, supt, pagedir, halted, logical, frame_lock,
                   workload, file, mmap_list, last_mid, file_descriptors,
                   alarm_list, alrm, timer_ticks, thread_status>>

\* lines 630-632: return false
sys_munmap_false(p) ==
    /\ Running
    /\ pc[p] = "munmap_false"
    /\ pc' = [pc EXCEPT ![p] = "idle"]
    /\ loc' = [loc EXCEPT ![p] = NoLoc]
    /\ UNCHANGED <<frame_list, clock_ptr, filesys_lock, frame_lock, pool, mem,
                   kdirty, swap_available, swap_data, supt, pagedir, halted,
                   logical, workload, file, mmap_list, last_mid,
                   file_descriptors, alarm_list, alrm, timer_ticks,
                   thread_status>>

\* the offset (in pages) that sys_munmap passes for the page loc.idx
munmap_offset(l) == l.idx - l.first

\* vm_supt_munmap, lines 206-213: the lookup, and for a resident page the
\* read of spte->kpage that is passed to vm_frame_pin
vm_supt_munmap(p) ==
    /\ Running
    /\ pc[p] = "mun_check"
    /\ LET spte == supt[p][loc[p].idx]
       IN  IF spte.status = "NONE"
           THEN Halt("Some page is missing")
           ELSE /\ pc' = [pc EXCEPT ![p] =
                       IF spte.status = "ON_FRAME" THEN "mun_pin"
                       ELSE "mun_switch"]
                /\ loc' = [loc EXCEPT ![p].kpage = spte.kpage]
                /\ UNCHANGED <<frame_list, clock_ptr, filesys_lock, frame_lock,
                               pool, mem, kdirty, swap_available, swap_data,
                               supt, pagedir, halted, logical, workload, file,
                               mmap_list, last_mid, file_descriptors,
                               alarm_list, alrm, timer_ticks, thread_status>>

\* vm_frame_pin (spte->kpage), line 212
vm_supt_munmap_pin(p) ==
    /\ Running
    /\ pc[p] = "mun_pin"
    /\ FrameLockHeld(p)
    /\ IF FrameIndex(frame_list, loc[p].kpage) = 0
       THEN Halt("The frame to be pinned of unpinned does not exist")
       ELSE /\ frame_list' = frame_set_pinned(frame_list, loc[p].kpage, TRUE)
            /\ pc' = [pc EXCEPT ![p] = "mun_switch"]
            /\ loc' = [loc EXCEPT ![p].kpage = NULL]
            /\ frame_lock' = frame_lock_release(p)
            /\ UNCHANGED <<clock_ptr, filesys_lock, pool, mem, kdirty,
                           swap_available, swap_data, supt, pagedir, halted,
                           logical, workload, file, mmap_list, last_mid,
                           file_descriptors, alarm_list, alrm, timer_ticks,
                           thread_status>>

\* the end of vm_supt_munmap for the page loc.idx: hash_delete of the entry.
\* After the last page sys_munmap goes on (lines 643-650): list_remove of the
\* descriptor, file_close, lock_release.
munmap_done(p) ==
    /\ supt' = [supt EXCEPT ![p][loc[p].idx] = NoEntry]
    /\ logical' = [logical EXCEPT ![p][loc[p].idx] = Zero]
    /\ IF loc[p].idx < loc[p].last
       THEN /\ pc' = [pc EXCEPT ![p] = "mun_check"]
            /\ loc' = [loc EXCEPT ![p].idx = @ + 1, ![p].kpage = NULL]
            /\ UNCHANGED <<mmap_list, filesys_lock>>
       ELSE /\ mmap_list' = [mmap_list EXCEPT ![p] =
                   SelectSeq(@, LAMBDA d : d.id # loc[p].mid)]
            /\ filesys_lock' = NoThread
            /\ pc' = [pc EXCEPT ![p] = "idle"]
            /\ loc' = [loc EXCEPT ![p] = NoLoc]

\* is_dirty of vm_supt_munmap, line 218 for a resident page (the entry's
\* flag, the dirty bit of upage, the dirty bit of kpage) and line 227 for a
\* swapped page (the entry's flag, the dirty bit of upage)
munmap_is_dirty(spte, pte, kd) ==
    \/ spte.is_dirty
    \/ pte.dirty
    \/ spte.status = "ON_FRAME" /\ kd[spte.kpage]

\* vm_supt_munmap, lines 215-241, the switch on spte->status.  ON_FRAME: the
\* dirty test; a dirty page goes on to file_write_at, a clean one to
\* vm_frame_free.  ON_SWAP: a dirty page is read from its slot into a scratch
\* page and written to the file, a clean one gives its slot back.  The
\* scratch page is palloc_get_page (0), unchecked: when the kernel pool is
\* empty vm_swap_in gets NULL and its first ASSERT fails.  FROM_FILESYS:
\* nothing to do.
vm_supt_munmap_switch(p) ==
    /\ Running
    /\ pc[p] = "mun_switch"
    /\ LET u == loc[p].idx
           spte == supt[p][u]
           s == spte.swap_index
           off == munmap_offset(loc[p]) + 1
       IN  CASE spte.status = "ON_FRAME" ->
                  IF spte.kpage = NULL
                  THEN Halt("assertion spte->kpage != NULL failed")
                  ELSE /\ pc' = [pc EXCEPT ![p] =
                              IF munmap_is_dirty(spte, pagedir[p][u], kdirty)
                              THEN "mun_write" ELSE "mun_free"]
                       /\ UNCHANGED <<frame_list, clock_ptr, filesys_lock,
                                      frame_lock, pool, mem, kdirty,
                                      swap_available, swap_data, supt, pagedir,
                                      loc, halted, logical, workload, file,
                                      mmap_list, last_mid, file_descriptors,
                                      alarm_list, alrm, timer_ticks,
                                      thread_status>>
             [] spte.status = "ON_SWAP" ->
                  IF ~swap_occupied(swap_available, s)
                  THEN Halt(IF munmap_is_dirty(spte, pagedir[p][u], kdirty)
                            THEN "Invalid access to unassigned swap block"
                            ELSE "Invalid free request to unassigned swap block")
                  ELSE \/ /\ munmap_is_dirty(spte, pagedir[p][u], kdirty)
                          /\ Halt("assertion page >= PHYS_BASE failed")
                       \/ /\ file' = IF munmap_is_dirty(spte, pagedir[p][u], kdirty)
                                     THEN [file EXCEPT ![p][off] = swap_data[s]]
                                     ELSE file
                          /\ swap_available' =
                                 [swap_available EXCEPT ![s] = TRUE]
                          /\ swap_data' = [swap_data EXCEPT ![s] = Junk]
                          /\ munmap_done(p)
                          /\ UNCHANGED <<frame_list, clock_ptr, pool, mem,
                                         kdirty, pagedir, halted, frame_lock,
                                         workload, last_mid, file_descriptors,
                                         alarm_list, alrm, timer_ticks,
                                         thread_status>>
             [] spte.status = "FROM_FILESYS" ->
                  /\ munmap_done(p)
                  /\ UNCHANGED <<frame_list, clock_ptr, pool, mem, kdirty,
                                 swap_available, swap_data, pagedir, halted,
                                 frame_lock, workload, file, last_mid,
                                 file_descriptors, alarm_list, alrm,
                                 timer_ticks, thread_status>>
             [] OTHER -> Halt("Invalid status")

\* file_write_at (file, spte->upage, bytes, offset), line 221: the copy reads
\* the page through its user address.  A page that is not present faults in
\* kernel mode and the fault handler calls vm_load_page.
vm_supt_munmap_write(p) ==
    /\ Running
    /\ pc[p] = "mun_write"
    /\ LET u == loc[p].idx
           off == munmap_offset(loc[p]) + 1
       IN  IF ~pagedir[p][u].present
           THEN vm_load_page(p, u, "mun_write")
           ELSE /\ file' = [file EXCEPT ![p][off] = mem[pagedir[p][u].kpage]]
                /\ pagedir' = [pagedir EXCEPT ![p][u].accessed = TRUE]
                /\ pc' = [pc EXCEPT ![p] = "mun_free"]
                /\ UNCHANGED <<frame_list, clock_ptr, filesys_lock, frame_lock,
                               pool, mem, kdirty, swap_available, swap_data,
                               supt, loc, halted, logical, workload, mmap_list,
                               last_mid, file_descriptors, alarm_list, alrm,
                               timer_ticks, thread_status>>

\* vm_frame_free (spte->kpage), line 223: the entry leaves the frame table
\* and the page goes back to the allocator
vm_supt_munmap_free(p) ==
    /\ Running
    /\ pc[p] = "mun_free"
    /\ FrameLockHeld(p)
    /\ LET u == loc[p].idx
           k == supt[p][u].kpage
       IN  IF k = NULL
           THEN Halt("assertion is_kernel_vaddr (kpage) failed")
           ELSE IF FrameIndex(frame_list, k) = 0
           THEN Halt("The page to be freed does not exist")
           ELSE /\ frame_list' = frame_remove(frame_list, k)
                /\ clock_ptr' = hand_after_remove(clock_ptr, k)
                /\ pool' = pool \cup {k}
                /\ mem' = palloc_free_mem(mem, {k})
                /\ kdirty' = palloc_free_dirty(kdirty, {k})
                /\ pc' = [pc EXCEPT ![p] = "mun_clear"]
                /\ frame_lock' = frame_lock_release(p)
                /\ UNCHANGED <<filesys_lock, swap_available, swap_data, supt,
                               pagedir, loc, halted, logical, workload, file,
                               mmap_list, last_mid, file_descriptors,
                               alarm_list, alrm, timer_ticks, thread_status>>

\* pagedir_clear_page (pagedir, spte->upage), line 224, then the end of the
\* unmap of the page
vm_supt_munmap_clear(p) ==
    /\ Running
    /\ pc[p] = "mun_clear"
    /\ pagedir' = [pagedir EXCEPT ![p][loc[p].idx] = pagedir_clear_page(@)]
    /\ munmap_done(p)
    /\ UNCHANGED <<frame_list, clock_ptr, frame_lock, pool, mem, kdirty,
                   swap_available, swap_data, halted, workload, file, last_mid,
                   file_descriptors, alarm_list, alrm, timer_ticks,
                   thread_status>>

\* ------------------------------------------------ process exit
\* exit (): the process starts to tear down its address space
sys_exit(p) ==
    /\ Running
    /\ pc[p] = "idle"
    /\ pc' = [pc EXCEPT ![p] = "exit"]
    /\ loc' = [loc EXCEPT ![p] = NoLoc]
    /\ UNCHANGED <<frame_list, clock_ptr, filesys_lock, frame_lock, pool, mem,
                   kdirty, swap_available, swap_data, supt, pagedir, halted,
                   logical, workload, file, mmap_list, last_mid,
                   file_descriptors, alarm_list, alrm, timer_ticks,
                   thread_status>>

\* spte_destroy_func for the entry of upage u, called by hash_destroy from
\* vm_supt_destroy.  A resident entry: the assertion, and the read of
\* entry->kpage that is passed to vm_frame_remove_entry.  A swapped entry:
\* vm_swap_free, which stops the kernel if the slot is not occupied.
spte_destroy_func(p, u) ==
    /\ Running
    /\ pc[p] = "exit"
    /\ supt[p][u].status # "NONE"
    /\ LET entry == supt[p][u]
       IN  IF entry.kpage # NULL
           THEN IF entry.status # "ON_FRAME"
                THEN Halt("assertion entry->status == ON_FRAME failed")
                ELSE /\ pc' = [pc EXCEPT ![p] = "td_remove"]
                     /\ loc' = [loc EXCEPT ![p].upage = u,
                                           ![p].kpage = entry.kpage]
                     /\ UNCHANGED <<frame_list, clock_ptr, filesys_lock,
                                    frame_lock, pool, mem, kdirty,
                                    swap_available, swap_data, supt, pagedir,
                                    halted, logical, workload, file, mmap_list,
                                    last_mid, file_descriptors, alarm_list,
                                    alrm, timer_ticks, thread_status>>
           ELSE IF entry.status = "ON_SWAP"
           THEN IF ~swap_occupied(swap_available, entry.swap_index)
                THEN Halt("Invalid free request to unassigned swap block")
                ELSE /\ swap_available' =
                            [swap_available EXCEPT ![entry.swap_index] = TRUE]
                     /\ swap_data' =
                            [swap_data EXCEPT ![entry.swap_index] = Junk]
                     /\ supt' = [supt EXCEPT ![p][u] = NoEntry]
                     /\ UNCHANGED <<frame_list, clock_ptr, filesys_lock,
                                    frame_lock, pool, mem, kdirty, pagedir, pc,
                                    loc, halted, logical, workload, file,
                                    mmap_list, last_mid, file_descriptors,
                                    alarm_list, alrm, timer_ticks,
                                    thread_status>>
           ELSE /\ supt' = [supt EXCEPT ![p][u] = NoEntry]
                /\ UNCHANGED <<frame_list, clock_ptr, filesys_lock, frame_lock,
                               pool, mem, kdirty, swap_available, swap_data,
                               pagedir, pc, loc, halted, logical, workload,
                               file, mmap_list, last_mid, file_descriptors,
                               alarm_list, alrm, timer_ticks, thread_status>>

\* vm_frame_remove_entry (entry->kpage): the entry leaves the frame table,
\* the page is not freed; then free (entry)
vm_frame_remove_entry(p) ==
    /\ Running
    /\ pc[p] = "td_remove"
    /\ FrameLockHeld(p)
    /\ LET k == loc[p].kpage
       IN  IF FrameIndex(frame_list, k) = 0
           THEN Halt("The page to be freed does not exist")
           ELSE /\ frame_list' = frame_remove(frame_list, k)
                /\ clock_ptr' = hand_after_remove(clock_ptr, k)
                /\ supt' = [supt EXCEPT ![p][loc[p].upage] = NoEntry]
                /\ pc' = [pc EXCEPT ![p] = "exit"]
                /\ loc' = [loc EXCEPT ![p] = NoLoc]
                /\ frame_lock' = frame_lock_release(p)
                /\ UNCHANGED <<filesys_lock, pool, mem, kdirty, swap_available,
                               swap_data, pagedir, halted, logical, workload,
                               file, mmap_list, last_mid, file_descriptors,
                               alarm_list, alrm, timer_ticks, thread_status>>

\* pagedir_destroy after vm_supt_destroy: every page still mapped goes back
\* to the allocator.  The thread is gone; its slot is taken by the next
\* process, which starts with an empty SPT, page directory and mmap_list.
pagedir_destroy(p) ==
    /\ Running
    /\ pc[p] = "exit"
    /\ \A u \in UPages : supt[p][u].status = "NONE"
    /\ LET ks == {pagedir[p][u].kpage : u \in {v \in UPages :
                                                 pagedir[p][v].present}}
       IN  /\ pool' = pool \cup ks
           /\ mem' = palloc_free_mem(mem, ks)
           /\ kdirty' = palloc_free_dirty(kdirty, ks)
    /\ pagedir' = [pagedir EXCEPT ![p] = [u \in UPages |-> NoPte]]
    /\ logical' = [logical EXCEPT ![p] = [u \in UPages |-> Zero]]
    /\ mmap_list' = [mmap_list EXCEPT ![p] = <<>>]
    /\ last_mid' = [last_mid EXCEPT ![p] = 0]
    /\ file_descriptors' = [file_descriptors EXCEPT ![p] = <<>>]
    /\ pc' = [pc EXCEPT ![p] = "idle"]
    /\ loc' = [loc EXCEPT ![p] = NoLoc]
    /\ UNCHANGED <<frame_list, clock_ptr, filesys_lock, frame_lock,
                   swap_available, swap_data, supt, halted, workload, file,
                   alarm_list, alrm, timer_ticks, thread_status>>

\* ------------------------------------------------ the system
Next ==
    \/ \E p \in Procs, u \in UPages : vm_supt_install_zeropage(p, u)
    \/ \E p \in Procs, u \in UPages : vm_supt_install_filesys(p, u)
    \/ \E p \in Procs, u \in UPages : page_fault(p, u)
    \/ \E p \in Procs : vm_load_page_fill(p)
    \/ \E p \in Procs : vm_load_page_nomem(p)
    \/ \E p \in Procs : vm_load_page_free(p)
    \/ \E p \in Procs : vm_load_page_unpin(p)
    \/ \E p \in Procs, u \in UPages : UserRead(p, u)
    \/ \E p \in Procs, u \in UPages, b \in Bytes : UserWrite(p, u, b)
    \/ \E p \in Procs, first \in UPages, last \in UPages :
           sys_read(p, first, last)
    \/ \E p \in Procs : preload_and_pin_pages(p)
    \/ \E p \in Procs : vm_pin_page(p)
    \/ \E p \in Procs : vm_frame_pin(p)
    \/ \E p \in Procs, b \in Bytes : file_read(p, b)
    \/ \E p \in Procs : vm_unpin_page(p)
    \/ \E p \in Procs : vm_frame_unpin(p)
    \/ \E p \in Procs, u \in UPages : sys_mmap(p, u)
    \/ \E p \in Procs : sys_mmap_fail(p)
    \/ \E p \in Procs, m \in 1..NumUPages : sys_munmap(p, m)
    \/ \E p \in Procs : vm_supt_munmap(p)
    \/ \E p \in Procs : vm_supt_munmap_pin(p)
    \/ \E p \in Procs : vm_supt_munmap_switch(p)
    \/ \E p \in Procs : vm_supt_munmap_write(p)
    \/ \E p \in Procs : vm_supt_munmap_free(p)
    \/ \E p \in Procs : vm_supt_munmap_clear(p)
    \/ \E p \in Procs : sys_exit(p)
    \/ \E p \in Procs, u \in UPages : spte_destroy_func(p, u)
    \/ \E p \in Procs : vm_frame_remove_entry(p)
    \/ \E p \in Procs : pagedir_destroy(p)

Spec == Init /\ [][Next]_vars


\* ------------------------------------------------ properties
\* no vm_load_page is between vm_frame_alloc and its return
Quiescent ==
    \A q \in Procs :
        pc[q] \notin {"lp_fill", "lp_unpin", "lp_free", "lp_nomem"}

\* the entry of frame_list that holds page u of process p, if any
FrameOf(p, u) ==
    {j \in 1..Len(frame_list) :
        frame_list[j].t = p /\ frame_list[j].upage = u}

\* C1: whenever no vm_load_page is in progress, every entry of the frame
\* table belongs to a page that its owner's SPT has ON_FRAME with the same
\* kpage, and the owner's page directory maps that upage to that kpage.
C1_FrameTableConsistent ==
    Quiescent =>
        \A j \in 1..Len(frame_list) :
            LET F == frame_list[j]
            IN  /\ supt[F.t][F.upage].status = "ON_FRAME"
                /\ supt[F.t][F.upage].kpage = F.kpage
                /\ pagedir[F.t][F.upage].present
                /\ pagedir[F.t][F.upage].kpage = F.kpage


\* C1 witness: two processes have run, a page was evicted and another is
\* resident, and nothing is in progress
C1_Witness ==
    /\ Quiescent
    /\ halted = ""
    /\ Len(frame_list) = NumFrames
    /\ \E p \in Procs, u \in UPages : supt[p][u].status = "ON_SWAP"
    /\ \E p \in Procs : pc[p] = "exit"

\* C2 as the spec states it: whenever no vm_load_page is in progress, every
\* SPT entry that is ON_SWAP names a swap slot the bitmap marks occupied,
\* and the frame table has no entry for that page of that owner.
C2_SwapEntriesOccupied ==
    (Quiescent /\ halted = "") =>
        \A p \in Procs, u \in UPages :
            supt[p][u].status = "ON_SWAP" =>
                /\ swap_occupied(swap_available, supt[p][u].swap_index)
                /\ FrameOf(p, u) = {}

\* C3 as the spec states it: whenever no vm_load_page is in progress, a
\* resident page holds what its process last stored into it (zeros if
\* nothing), however many times it went to swap and back.
C3_RoundTrip ==
    (Quiescent /\ halted = "") =>
        \A p \in Procs, u \in UPages :
            (supt[p][u].status = "ON_FRAME" /\ pagedir[p][u].present) =>
                mem[pagedir[p][u].kpage] = logical[p][u]

\* C4: a vm_load_page on a page whose SPT entry is ON_FRAME returns true to
\* preload_and_pin_pages and leaves the frame table, the clock hand, the
\* allocator, the SPT, the swap store and the page directories as they were.
C4_ResidentLoadIsNoOp ==
    [][\A p \in Procs :
          (/\ halted = ""
           /\ pc[p] = "preload"
           /\ pc'[p] # "preload"
           /\ supt[p][loc[p].idx].status = "ON_FRAME")
          => /\ pc'[p] = "pin_check"
             /\ loc'[p].ok = "true"
             /\ loc'[p].kpage = NULL
             /\ frame_list' = frame_list
             /\ clock_ptr' = clock_ptr
             /\ pool' = pool
             /\ supt' = supt
             /\ swap_available' = swap_available
             /\ swap_data' = swap_data
             /\ mem' = mem
             /\ pagedir' = pagedir]_vars

\* C4 witness: vm_load_page returned true to preload_and_pin_pages without
\* having taken a frame, for a page that is resident
C4_Witness ==
    \E p \in Procs :
        /\ pc[p] = "pin_check"
        /\ loc[p].ok = "true"
        /\ loc[p].kpage = NULL
        /\ supt[p][loc[p].idx].status = "ON_FRAME"
        /\ halted = ""

\* the frame of page u of process p is in the frame table and pinned
PinnedResident(p, u) ==
    /\ supt[p][u].status = "ON_FRAME"
    /\ \E j \in FrameOf(p, u) :
          /\ frame_list[j].kpage = supt[p][u].kpage
          /\ frame_list[j].is_pinned

\* C5 as the spec states it: once preload_and_pin_pages has returned and
\* until unpin_preloaded_pages runs, every page of the buffer that has an
\* SPT entry is ON_FRAME with its frame pinned, and vm_pin_page's assertion
\* never fails.
C5_BufferPinnedDuringIO ==
    /\ halted # "assertion spte->status == ON_FRAME failed"
    /\ halted = "" =>
          \A p \in Procs :
              pc[p] = "io" =>
                  \A u \in BufPages(p) :
                      supt[p][u].status # "NONE" => PinnedResident(p, u)

\* C6 as the spec states it: the frame-table entry of a vm_load_page that
\* has not yet done its final unpin is pinned, and the victim
\* the clock scan returns is neither pinned nor the frame of a vm_load_page
\* in progress.
C6_InProgressFrameNotEvicted ==
    halted = "" =>
        \A p \in Procs :
            /\ pc[p] \in {"lp_fill", "lp_unpin"} =>
                  \A j \in 1..Len(frame_list) :
                      (/\ frame_list[j].kpage = loc[p].kpage
                       /\ frame_list[j].t = p
                       /\ frame_list[j].upage = loc[p].upage)
                      => frame_list[j].is_pinned
            /\ (pc[p] = "lp_fill" /\ loc[p].victim.kpage # NULL) =>
                  /\ ~loc[p].victim.is_pinned
                  /\ ~loc[p].victim.busy

\* C7 as the spec states it: the victim the clock scan returns is an entry
\* whose accessed bit is clear in the page directory of its owner.
C7_VictimNotAccessedByOwner ==
    \A p \in Procs :
        (pc[p] = "lp_fill" /\ loc[p].victim.kpage # NULL) =>
            ~loc[p].victim.owner_accessed

\* C8 as the spec states it: the clock hand is unset or on an entry of the
\* frame table, never on the list sentinel and never on a removed entry,
\* and no inspection of a scan reads the sentinel.
C8_HandOnLiveEntry ==
    /\ clock_ptr.at \in {"NULL", "ENTRY"}
    /\ clock_ptr.at = "ENTRY" => FrameIndex(frame_list, clock_ptr.kpage) # 0
    /\ \A p \in Procs : loc[p].sentinel = 0

\* C9 as the spec states it: one victim selection over N entries makes at
\* most 2 * N inspections.
C9_AtMostTwoN ==
    \A p \in Procs : loc[p].i <= 2 * loc[p].n

\* C9, amended: one victim selection over N entries makes at most
\* 2 * N + 1 inspections, and the kernel halts with "Cannot evict any frame"
\* only after 2 * N + 1 inspections that returned no victim.
C9_AtMostTwoNPlusOne ==
    /\ \A p \in Procs : loc[p].i <= 2 * loc[p].n + 1
    /\ halted = "Cannot evict any frame" =>
          \E p \in Procs : loc[p].n >= 1 /\ loc[p].i = 2 * loc[p].n + 1

\* C9 witness: a scan over N entries made 2 * N + 1 inspections and halted
C9_Witness ==
    /\ halted = "Cannot evict any frame"
    /\ \E p \in Procs : loc[p].n >= 1 /\ loc[p].i = 2 * loc[p].n + 1

\* C10 as the spec states it: vm_frame_alloc's victim selection stops the
\* kernel only when every entry of the frame table is pinned.
C10_HaltOnlyIfAllPinned ==
    halted \in {"Cannot evict any frame", "the victim is the list sentinel",
                "clock_ptr points at a freed entry"}
        => \A j \in 1..Len(frame_list) : frame_list[j].is_pinned

\* vm_supt_munmap of process p ends for the page loc.idx in this step
PageUnmapped(p) ==
    /\ pc[p] \in {"mun_switch", "mun_free"}
    /\ supt[p][loc[p].idx].status # "NONE"
    /\ supt'[p][loc[p].idx].status = "NONE"
    /\ halted' = ""

\* C11 as the spec states it: when vm_supt_munmap is done with a page of a
\* mapping, the file holds at that page's offset what the process last
\* stored into the page (the file's own bytes if it stored nothing), whether
\* the page was resident or in swap at the unmap.
C11_MunmapWritesBack ==
    [][\A p \in Procs :
          PageUnmapped(p) =>
              file'[p][munmap_offset(loc[p]) + 1] = logical[p][loc[p].idx]]_vars


\* sys_mmap of process p returns -1 in this step, or has just jumped to
\* MMAP_FAIL
MmapFails(p) ==
    \/ pc[p] = "idle" /\ pc'[p] = "mmap_fail"
    \/ pc[p] = "mmap_fail" /\ pc'[p] = "idle"

\* sys_mmap of process p succeeds in this step: a descriptor is appended
MmapSucceeds(p) == Len(mmap_list'[p]) > Len(mmap_list[p])

\* C12: sys_mmap succeeds only if no page of the target range had an SPT
\* entry, so it fails whenever one has; a failing call leaves the caller's
\* SPT, its descriptor list, its page directory and the file as they were.
C12_MmapOverlapFails ==
    [][\A p \in Procs :
          /\ MmapSucceeds(p) =>
                LET d == mmap_list'[p][Len(mmap_list'[p])]
                IN  \A v \in mmap_range(d.addr, d.size) :
                        supt[p][v].status = "NONE"
          /\ MmapFails(p) =>
                /\ supt' = supt
                /\ mmap_list' = mmap_list
                /\ pagedir' = pagedir
                /\ file' = file]_vars

\* a call of sys_mmap has failed on a range that overlaps a live mapping,
\* and the mapping's descriptor and entries are in place
C12_Witness ==
    \E p \in Procs :
        /\ pc[p] = "mmap_fail"
        /\ mmap_list[p] # <<>>
        /\ \A d \in {mmap_list[p][i] : i \in 1..Len(mmap_list[p])} :
               \A v \in mmap_range(d.addr, d.size) :
                   supt[p][v].status # "NONE"


\* C13 as the spec states it: a page whose SPT entry was installed with
\* writable = false is never mapped writable in its process's page
\* directory, whatever the entry's status has become since.
C13_ReadOnlyStaysReadOnly ==
    \A p \in Procs, u \in UPages :
        (supt[p][u].status # "NONE" /\ ~supt[p][u].writable
            /\ pagedir[p][u].present)
        => ~pagedir[p][u].writable


\* vm_frame_alloc of process p found no free page and has evicted a victim
\* in this step
Evicts(p) ==
    /\ pc[p] \notin {"lp_fill", "lp_nomem"}
    /\ pc'[p] \in {"lp_fill", "lp_nomem"}
    /\ pool = {}
    /\ halted' = ""

LoadFills(p) == pc[p] = "lp_fill" /\ pc'[p] = "lp_unpin"

\* vm_load_page of process p returns true for a page that was not resident
\* in this step (lines 201-202)
LoadReturnsTrue(p) == pc[p] = "lp_unpin" /\ pc'[p] # "lp_unpin" /\ halted' = ""

\* the frame table has the entry (k, u, p), pinned or not as given
HasFrameEntry(list, k, u, p, pinned) ==
    \E j \in 1..Len(list) :
        /\ list[j].kpage = k
        /\ list[j].upage = u
        /\ list[j].t = p
        /\ list[j].is_pinned = pinned

\* upage u of process p is mapped to the frame k, its SPT entry is ON_FRAME
\* with that kpage, and both hardware dirty bits are clear
LoadedState(pd, spt, kd, p, u, k) ==
    /\ pd[p][u].present
    /\ pd[p][u].kpage = k
    /\ ~pd[p][u].dirty
    /\ ~kd[k]
    /\ spt[p][u].status = "ON_FRAME"
    /\ spt[p][u].kpage = k

\* C15 as the spec states it: a vm_load_page that succeeds on a non-resident
\* page maps upage to the new frame, leaves the SPT entry ON_FRAME with that
\* kpage, the frame in the frame table and (at the return) unpinned, the
\* dirty bit clear, and the frame holding zeros, the slot's contents (the
\* slot free afterwards) or the file's bytes; an ALL_ZEROS load that took a
\* free page leaves the swap bitmap as it was.
C15_LoadPostconditions ==
    [][\A p \in Procs :
          LET u == loc[p].upage
              k == loc[p].kpage
              spte == supt[p][u]
          IN  /\ LoadFills(p) =>
                    /\ LoadedState(pagedir', supt', kdirty', p, u, k)
                    /\ HasFrameEntry(frame_list', k, u, p, TRUE)
                    /\ spte.status = "ALL_ZEROS" => mem'[k] = Zero
                    /\ spte.status = "ON_SWAP" =>
                          /\ mem'[k] = swap_data[spte.swap_index]
                          /\ swap_available'[spte.swap_index]
                    /\ spte.status = "FROM_FILESYS" =>
                          mem'[k] = file[p][spte.file_offset + 1]
                    /\ (spte.status = "ALL_ZEROS"
                            /\ loc[p].victim = NoVictim) =>
                          swap_available' = swap_available
              /\ LoadReturnsTrue(p) =>
                    /\ LoadedState(pagedir', supt', kdirty', p, u, k)
                    /\ HasFrameEntry(frame_list', k, u, p, FALSE)
                    /\ mem'[k] = mem[k]
                    /\ swap_available' = swap_available]_vars


\* vm_load_page of process p returns false in this step, after it called
\* vm_frame_alloc
LoadReturnsFalse(p) ==
    /\ pc[p] \in {"lp_free", "lp_nomem"}
    /\ pc'[p] \notin {"lp_free", "lp_nomem"}
    /\ halted' = ""

\* vm_load_page of process p gives up in this step: the file read came
\* short or pagedir_set_page returned false
LoadFails(p) == pc[p] = "lp_fill" /\ pc'[p] = "lp_free"

\* vm_load_page of process p calls vm_frame_alloc in this step
LoadAllocates(p) ==
    /\ pc[p] \notin {"lp_fill", "lp_nomem"}
    /\ pc'[p] \in {"lp_fill", "lp_nomem"}

\* C16 as the spec states it: when vm_load_page returns false, the frame
\* taken for the call is out of the frame table and back in the allocator,
\* no mapping for upage was added, and the SPT entry has the status it had;
\* for an upage without SPT entry vm_frame_alloc is not called.
C16_FailedLoadReclaimsFrame ==
    [][\A p \in Procs :
          LET u == loc[p].upage
              k == loc[p].kpage
          IN  /\ LoadReturnsFalse(p) =>
                    /\ FrameIndex(frame_list', k) = 0
                    /\ k \in pool'
                    /\ ~pagedir'[p][u].present
                    /\ supt'[p][u].status = supt[p][u].status
              /\ LoadFails(p) =>
                    /\ pagedir' = pagedir
                    /\ supt'[p][u].status = supt[p][u].status
              /\ LoadAllocates(p) =>
                    supt[p][loc'[p].upage].status # "NONE"]_vars


\* ------------------------------------------------ the swap store alone
\* The three operations of swap.c called directly, with any slot index, by
\* threads that keep the slots they were given: the thread's SPT entry u is
\* ON_SWAP with the slot vm_swap_out returned for it, and logical is what the
\* page held.  An occupied slot is read or freed only by the thread that
\* holds it; any thread passes free slots and the index swap_size.
\* vm_swap_out is called under frame_lock (vm_frame_alloc), so one call runs
\* at a time; block_write and block_read wait for the disk, so other threads
\* run between them and the bitmap update that follows.
SwapInit ==
    /\ workload = "swap"
    /\ frame_list = <<>>
    /\ clock_ptr = HandNull
    /\ filesys_lock = NoThread
    /\ frame_lock = NoThread
    /\ pool = {}
    /\ mem = [k \in Frames |-> Zero]
    /\ kdirty = [k \in Frames |-> FALSE]
    /\ swap_available = [s \in Slots |-> TRUE]
    /\ swap_data = [s \in Slots |-> Junk]
    /\ supt = [p \in Procs |-> [u \in UPages |-> NoEntry]]
    /\ pagedir = [p \in Procs |-> [u \in UPages |-> NoPte]]
    /\ pc = [p \in Procs |-> "idle"]
    /\ loc = [p \in Procs |-> NoLoc]
    /\ halted = ""
    /\ logical = [p \in Procs |-> [u \in UPages |-> Zero]]
    /\ file = [p \in Procs |-> <<>>]
    /\ mmap_list = [p \in Procs |-> <<>>]
    /\ last_mid = [p \in Procs |-> 0]
    /\ file_descriptors = [p \in Procs |-> <<>>]
    /\ alarm_list = <<>>
    /\ alrm = [p \in Procs |-> NoAlarm]
    /\ timer_ticks = 0
    /\ thread_status = [p \in Procs |-> "READY"]

\* what no operation of swap.c touches
swap_untouched == <<frame_list, clock_ptr, filesys_lock, frame_lock, pool,
                    kdirty, pagedir, workload, file, mmap_list, last_mid,
                    file_descriptors, alarm_list, alrm, timer_ticks,
                    thread_status>>

\* thread p holds slot s for one of its pages
HoldsIn(spt, p, s) ==
    \E u \in UPages :
        spt[p][u].status = "ON_SWAP" /\ spt[p][u].swap_index = s

Holds(p, s) == HoldsIn(supt, p, s)

\* the SPT of a thread after it gave up slot s
Release(spt, s) ==
    [u \in UPages |->
        IF spt[u].status = "ON_SWAP" /\ spt[u].swap_index = s THEN NoEntry
        ELSE spt[u]]

\* an occupied slot is passed only by the thread that holds it
OwnOrFree(p, s) == (s \in Slots /\ ~swap_available[s]) => Holds(p, s)

\* a store into the kernel page k
SwapStore(k, b) ==
    /\ Running
    /\ mem[k] # b
    /\ mem' = [mem EXCEPT ![k] = b]
    /\ UNCHANGED <<swap_available, swap_data, supt, pc, loc, halted, logical>>
    /\ UNCHANGED swap_untouched

\* thread p calls vm_swap_out for its page u in the kernel page k (op =
\* "so_call"), vm_swap_in (s, k) ("si_call") or vm_swap_free (s) ("sf_call")
SwapCall(p, op, u, s, k) ==
    /\ Running
    /\ pc[p] = "idle"
    /\ IF op = "so_call" THEN supt[p][u].status = "NONE" /\ s = 0
       ELSE u = 1 /\ OwnOrFree(p, s)
    /\ pc' = [pc EXCEPT ![p] = op]
    /\ loc' = [loc EXCEPT ![p] =
           [NoLoc EXCEPT !.upage = u, !.kpage = k, !.idx = s]]
    /\ UNCHANGED <<mem, swap_available, swap_data, supt, halted, logical>>
    /\ UNCHANGED swap_untouched

\* vm_swap_out (page), lines 31-38: bitmap_scan and the block_write loop.
\* With no free slot bitmap_scan returns BITMAP_ERROR and block_write stops
\* the kernel on the first sector, which lies past the end of the device.
vm_swap_out(p) ==
    /\ Running
    /\ pc[p] = "so_call"
    /\ \A q \in Procs : pc[q] # "so_mark"
    /\ LET s == bitmap_scan(swap_available)
       IN  IF s = -1
           THEN Halt("Access past end of device")
           ELSE /\ swap_data' = [swap_data EXCEPT ![s] = mem[loc[p].kpage]]
                /\ logical' = [logical EXCEPT ![p][loc[p].upage] =
                       mem[loc[p].kpage]]
                /\ loc' = [loc EXCEPT ![p].idx = s]
                /\ pc' = [pc EXCEPT ![p] = "so_mark"]
                /\ UNCHANGED <<mem, swap_available, supt, halted>>
                /\ UNCHANGED swap_untouched

\* vm_swap_out, lines 40-41: bitmap_set (.., false) and the return; the
\* caller keeps the slot
vm_swap_out_mark(p) ==
    /\ Running
    /\ pc[p] = "so_mark"
    /\ swap_available' = [swap_available EXCEPT ![loc[p].idx] = FALSE]
    /\ supt' = [supt EXCEPT ![p][loc[p].upage] =
           spte_set_swap(@, loc[p].idx)]
    /\ pc' = [pc EXCEPT ![p] = "idle"]
    /\ loc' = [loc EXCEPT ![p] = NoLoc]
    /\ UNCHANGED <<mem, swap_data, halted, logical>>
    /\ UNCHANGED swap_untouched

\* vm_swap_in (swap_index, page), lines 45-55: the two checks and the
\* block_read loop
vm_swap_in(p) ==
    /\ Running
    /\ pc[p] = "si_call"
    /\ OwnOrFree(p, loc[p].idx)
    /\ LET s == loc[p].idx
       IN  IF s \notin Slots
           THEN Halt("assertion swap_index < swap_size failed")
           ELSE IF ~swap_occupied(swap_available, s)
           THEN Halt("Invalid access to unassigned swap block")
           ELSE /\ mem' = [mem EXCEPT ![loc[p].kpage] = swap_data[s]]
                /\ pc' = [pc EXCEPT ![p] = "si_mark"]
                /\ UNCHANGED <<swap_available, swap_data, supt, loc, halted,
                               logical>>
                /\ UNCHANGED swap_untouched

\* vm_swap_in, line 57: bitmap_set (.., true); the caller gives up the slot
vm_swap_in_mark(p) ==
    /\ Running
    /\ pc[p] = "si_mark"
    /\ swap_available' = [swap_available EXCEPT ![loc[p].idx] = TRUE]
    /\ swap_data' = [swap_data EXCEPT ![loc[p].idx] = Junk]
    /\ supt' = [supt EXCEPT ![p] = Release(@, loc[p].idx)]
    /\ pc' = [pc EXCEPT ![p] = "idle"]
    /\ loc' = [loc EXCEPT ![p] = NoLoc]
    /\ UNCHANGED <<mem, halted, logical>>
    /\ UNCHANGED swap_untouched

\* vm_swap_free (swap_index), lines 61-67
vm_swap_free(p) ==
    /\ Running
    /\ pc[p] = "sf_call"
    /\ OwnOrFree(p, loc[p].idx)
    /\ LET s == loc[p].idx
       IN  IF s \notin Slots
           THEN Halt("assertion swap_index < swap_size failed")
           ELSE IF ~swap_occupied(swap_available, s)
           THEN Halt("Invalid free request to unassigned swap block")
           ELSE /\ swap_available' = [swap_available EXCEPT ![s] = TRUE]
                /\ swap_data' = [swap_data EXCEPT ![s] = Junk]
                /\ supt' = [supt EXCEPT ![p] = Release(@, s)]
                /\ pc' = [pc EXCEPT ![p] = "idle"]
                /\ loc' = [loc EXCEPT ![p] = NoLoc]
                /\ UNCHANGED <<mem, halted, logical>>
                /\ UNCHANGED swap_untouched

SwapNext ==
    \/ \E k \in Frames, b \in Bytes \cup {Zero} : SwapStore(k, b)
    \/ \E p \in Procs, op \in {"so_call", "si_call", "sf_call"},
          u \in UPages, s \in 0..NumSlots, k \in Frames :
           SwapCall(p, op, u, s, k)
    \/ \E p \in Procs : vm_swap_out(p)
    \/ \E p \in Procs : vm_swap_out_mark(p)
    \/ \E p \in Procs : vm_swap_in(p)
    \/ \E p \in Procs : vm_swap_in_mark(p)
    \/ \E p \in Procs : vm_swap_free(p)

SwapSpec == SwapInit /\ [][SwapNext]_vars

\* steps of the swap operations of thread p: vm_swap_out has chosen its slot
\* and written it, vm_swap_out returns, vm_swap_in has read its slot,
\* vm_swap_in returns, vm_swap_free returns
OutWrites(p) == pc[p] = "so_call" /\ pc'[p] = "so_mark"
OutReturns(p) == pc[p] = "so_mark" /\ pc'[p] = "idle"
InReads(p) == pc[p] = "si_call" /\ pc'[p] = "si_mark"
InReturns(p) == pc[p] = "si_mark" /\ pc'[p] = "idle"
FreeReturns(p) == pc[p] = "sf_call" /\ pc'[p] = "idle"

\* every slot but s is as it was, bit and contents
OtherSlotsKept(s) ==
    \A t \in Slots \ {s} :
        /\ swap_available'[t] = swap_available[t]
        /\ swap_data'[t] = swap_data[t]

\* the page of thread p that it holds slot s for
HeldPage(p, s) ==
    CHOOSE u \in UPages :
        supt[p][u].status = "ON_SWAP" /\ supt[p][u].swap_index = s

BadIndex(s) == IF s \in Slots THEN swap_available[s] ELSE TRUE

\* C18: a vm_swap_in or vm_swap_free whose index is at or above swap_size
\* or whose slot is free, and a vm_swap_out that finds no free slot, do not
\* return: the only step they take halts the kernel; a step that halts the
\* kernel leaves the bitmap and the contents of every slot as they were.
C18_SwapErrorsHaltFirst ==
    [][/\ \A p \in Procs :
             /\ (pc[p] \in {"si_call", "sf_call"} /\ BadIndex(loc[p].idx)) =>
                   pc'[p] = pc[p]
             /\ (pc[p] = "so_call" /\ \A t \in Slots : ~swap_available[t]) =>
                   pc'[p] = pc[p]
       /\ (halted = "" /\ halted' # "") =>
             /\ swap_available' = swap_available
             /\ swap_data' = swap_data
             /\ \E p \in Procs :
                   \/ /\ halted' = "Access past end of device"
                      /\ pc[p] = "so_call"
                      /\ \A t \in Slots : ~swap_available[t]
                   \/ /\ halted' \in
                             {"assertion swap_index < swap_size failed",
                              "Invalid access to unassigned swap block",
                              "Invalid free request to unassigned swap block"}
                      /\ pc[p] \in {"si_call", "sf_call"}
                      /\ BadIndex(loc[p].idx)]_vars

\* the kernel has halted in vm_swap_in on a free slot while another slot
\* is occupied and holds its page
C18_Witness ==
    /\ halted = "Invalid access to unassigned swap block"
    /\ \E p \in Procs :
          /\ pc[p] = "si_call"
          /\ loc[p].idx \in Slots
          /\ swap_available[loc[p].idx]
    /\ \E s \in Slots : ~swap_available[s] /\ swap_data[s] \in Bytes


\* ------------------------------------------------ the two locks, in steps
\* The kernel with lock_acquire (&frame_lock) as a step of its own and the
\* eviction of vm_frame_alloc in steps, so that what other threads do while
\* a thread holds or waits for frame_lock is visible.  Every process has one
\* page; in "io_steps" the programs read files into it, in "mmap_steps" they
\* map and unmap their file.
LockInit ==
    /\ workload \in StepWorkloads
    /\ frame_list = <<>>
    /\ clock_ptr = HandNull
    /\ filesys_lock = NoThread
    /\ frame_lock = NoThread
    /\ pool = Frames
    /\ mem = [k \in Frames |-> Junk]
    /\ kdirty = [k \in Frames |-> FALSE]
    /\ swap_available = [s \in Slots |-> TRUE]
    /\ swap_data = [s \in Slots |-> Junk]
    /\ supt = [p \in Procs |-> [u \in UPages |-> NoEntry]]
    /\ pagedir = [p \in Procs |-> [u \in UPages |-> NoPte]]
    /\ pc = [p \in Procs |-> "idle"]
    /\ loc = [p \in Procs |-> NoLoc]
    /\ halted = ""
    /\ logical = [p \in Procs |-> [u \in UPages |-> Zero]]
    /\ file \in {f \in [Procs -> UNION {[1..n -> Bytes] : n \in 0..NumUPages}] :
                    \A p \in Procs : f[p] \in FilesOf(workload, p)}
    /\ mmap_list = [p \in Procs |-> <<>>]
    /\ last_mid = [p \in Procs |-> 0]
    /\ file_descriptors = [p \in Procs |-> <<>>]
    /\ alarm_list = <<>>
    /\ alrm = [p \in Procs |-> NoAlarm]
    /\ timer_ticks = 0
    /\ thread_status = [p \in Procs |-> "READY"]

LockNext ==
    \/ \E p \in Procs, u \in UPages : vm_supt_install_zeropage(p, u)
    \/ \E p \in Procs, u \in UPages : page_fault(p, u)
    \/ \E p \in Procs : lock_acquire_frame_lock(p)
    \/ \E p \in Procs : vm_frame_alloc_locked(p)
    \/ \E p \in Procs : vm_frame_alloc_set_swap(p)
    \/ \E p \in Procs : vm_frame_alloc_insert(p)
    \/ \E p \in Procs : vm_load_page_fill(p)
    \/ \E p \in Procs : vm_load_page_nomem(p)
    \/ \E p \in Procs : vm_load_page_free(p)
    \/ \E p \in Procs : vm_load_page_unpin(p)
    \/ \E p \in Procs, u \in UPages : UserRead(p, u)
    \/ \E p \in Procs, u \in UPages, b \in Bytes : UserWrite(p, u, b)
    \/ \E p \in Procs, first \in UPages, last \in UPages :
           sys_read(p, first, last)
    \/ \E p \in Procs : preload_and_pin_pages(p)
    \/ \E p \in Procs : vm_pin_page(p)
    \/ \E p \in Procs : vm_frame_pin(p)
    \/ \E p \in Procs, b \in Bytes : file_read(p, b)
    \/ \E p \in Procs : vm_unpin_page(p)
    \/ \E p \in Procs : vm_frame_unpin(p)
    \/ \E p \in Procs, u \in UPages : sys_mmap(p, u)
    \/ \E p \in Procs : sys_mmap_fail(p)
    \/ \E p \in Procs, m \in 1..NumUPages : sys_munmap(p, m)
    \/ \E p \in Procs : sys_munmap_false(p)
    \/ \E p \in Procs : vm_supt_munmap(p)
    \/ \E p \in Procs : vm_supt_munmap_pin(p)
    \/ \E p \in Procs : vm_supt_munmap_switch(p)
    \/ \E p \in Procs : vm_supt_munmap_write(p)
    \/ \E p \in Procs : vm_supt_munmap_free(p)
    \/ \E p \in Procs : vm_supt_munmap_clear(p)
    \/ \E p \in Procs : sys_exit(p)
    \/ \E p \in Procs, u \in UPages : spte_destroy_func(p, u)
    \/ \E p \in Procs : vm_frame_remove_entry(p)
    \/ \E p \in Procs : pagedir_destroy(p)

LockSpec == LockInit /\ [][LockNext]_vars

\* the step changes the frame table: an entry is inserted or removed, a pin
\* flag is set or cleared, or the clock hand moves
FrameTableMutated == frame_list' # frame_list \/ clock_ptr' # clock_ptr

\* the step is taken by the thread that holds frame_lock: somebody holds
\* the lock and no other thread moves
HolderSteps ==
    /\ frame_lock \in Procs
    /\ \A q \in Procs \ {frame_lock} : pc'[q] = pc[q] /\ loc'[q] = loc[q]

\* thread p is in the middle of an eviction: vm_supt_set_swap has switched
\* the victim's entry to ON_SWAP and cleared its kpage, vm_frame_do_free has
\* not yet removed the victim's frame-table entry
EvictionMidway(p) ==
    /\ pc[p] = "fa_free"
    /\ frame_lock = p
    /\ FrameIndex(frame_list, loc[p].victim.kpage) # 0
    /\ supt[loc[p].victim.t][loc[p].victim.upage].status = "ON_SWAP"
    /\ supt[loc[p].victim.t][loc[p].victim.upage].kpage = NULL

\* thread q takes a step of a VM operation that reads its entry for page u:
\* vm_load_page, vm_pin_page, vm_unpin_page and vm_supt_munmap on the page
\* loc.idx of a system call, vm_load_page of a page fault that goes on to
\* vm_frame_alloc, and spte_destroy_func of the teardown
ReadsSpte(q, u) ==
    \/ /\ pc[q] \in {"preload", "pin_check", "unpin_check", "mun_check",
                     "mun_switch"}
       /\ loc[q].idx = u
       /\ pc'[q] # pc[q]
    \/ /\ pc[q] = "idle"
       /\ pc'[q] = "fa_lock"
       /\ loc'[q].upage = u
    \/ /\ pc[q] = "exit"
       /\ \/ supt'[q][u] # supt[q][u]
          \/ pc'[q] = "td_remove" /\ loc'[q].upage = u

\* no VM operation of the victim's owner reads the victim's entry while an
\* eviction by another thread is in the middle
EvictionAtomic ==
    \A p \in Procs :
        EvictionMidway(p) =>
            \A q \in Procs \ {p} :
                q = loc[p].victim.t => ~ReadsSpte(q, loc[p].victim.upage)

\* C19: every mutation of the frame table (insert, removal, pin-flag change,
\* move of the clock hand) is made by the thread that holds frame_lock, and
\* an eviction is atomic for the VM operations of every other thread: none
\* of them reads the victim's SPT entry in a state where the entry is
\* already ON_SWAP with its kpage cleared while the victim's frame-table
\* entry still exists.
C19_FrameLockSerialises ==
    [][(FrameTableMutated => HolderSteps) /\ EvictionAtomic]_vars

\* where a thread is inside a frame-table operation, between its
\* lock_acquire (&frame_lock) and its lock_release
FrameOpPcs == FrameLockPcs \cup {"fa_set_swap", "fa_free"}

\* thread p takes filesys_lock, or frame_lock, in this step
AcquiresFilesysLock(p) == filesys_lock # p /\ filesys_lock' = p
AcquiresFrameLock(p) == frame_lock # p /\ frame_lock' = p

\* thread p is in lock_acquire (&frame_lock) and another thread holds the
\* lock
WaitsForFrameLock(p) ==
    pc[p] \in FrameLockPcs /\ frame_lock \notin {p, NoThread}

\* thread p is in user mode, from where its next system call calls
\* lock_acquire (&filesys_lock), and another thread holds the lock
WaitsForFilesysLock(p) ==
    pc[p] = "idle" /\ filesys_lock \notin {p, NoThread}

\* the holder of each lock waits for the other lock
LockCycle ==
    \E p \in Procs, q \in Procs :
        /\ frame_lock = p
        /\ filesys_lock = q
        /\ WaitsForFilesysLock(p)
        /\ WaitsForFrameLock(q)

\* C20: the lock order is filesys_lock before frame_lock.  The holder of
\* frame_lock is always inside a frame-table operation, where no lock is
\* requested; no step takes filesys_lock for a thread that holds frame_lock,
\* and a step that takes frame_lock leaves the thread's hold of filesys_lock
\* as it was, so a thread that holds both took filesys_lock first; and the
\* holders of the two locks never wait for each other.
C20_LockOrder ==
    /\ [](\A p \in Procs : frame_lock = p => pc[p] \in FrameOpPcs)
    /\ [](~LockCycle)
    /\ [][\A p \in Procs :
             /\ AcquiresFilesysLock(p) => frame_lock # p /\ frame_lock' # p
             /\ AcquiresFrameLock(p) =>
                    (filesys_lock' = p <=> filesys_lock = p)]_vars

\* thread p holds both locks, inside vm_frame_pin or vm_frame_unpin of
\* sys_read or inside vm_supt_munmap, while another thread waits for
\* frame_lock
C20_Witness ==
    \E p \in Procs, q \in Procs :
        /\ filesys_lock = p
        /\ frame_lock = p
        /\ WaitsForFrameLock(q)

\* sys_munmap of process p returns true in this step: vm_supt_munmap is
\* done with the last page, and lines 643-650 have run
MunmapReturns(p) ==
    /\ pc[p] \in {"mun_switch", "mun_free"}
    /\ pc'[p] = "idle"
    /\ halted' = ""

\* nothing is left of the mapping mid of process p over the pages
\* first..last: no SPT entry, no frame-table entry, no hardware mapping, and
\* no descriptor
MappingGone(spt, list, pd, descs, p, first, last, mid) ==
    /\ \A u \in first..last :
          /\ spt[p][u].status = "NONE"
          /\ \A j \in 1..Len(list) : ~(list[j].t = p /\ list[j].upage = u)
          /\ ~pd[p][u].present
    /\ \A j \in 1..Len(descs[p]) : descs[p][j].id # mid

\* sys_munmap of process p finds no descriptor, or returns false, in this
\* step
MunmapFails(p) ==
    \/ pc[p] = "idle" /\ pc'[p] = "munmap_false"
    \/ pc[p] = "munmap_false" /\ pc'[p] = "idle"

\* sys_munmap of process p has found its descriptor in this step
MunmapStarts(p) == pc[p] = "idle" /\ pc'[p] = "mun_check"

\* process p has a mapping with id mid
HasMapping(p, mid) == \E j \in 1..Len(mmap_list[p]) : mmap_list[p][j].id = mid

\* C21: when sys_munmap (mid) of a live mapping returns, whatever other
\* threads evicted meanwhile, no SPT entry is left for a page of the range,
\* no frame-table entry refers to one, none is mapped in the page directory
\* and the descriptor is off mmap_list; when vm_supt_munmap is done with a
\* page that was in swap, the slot that held it is free.  sys_munmap
\* unmaps only a mapping whose id it was given; with an unknown id it
\* returns false and changes nothing.
C21_MunmapRemovesMapping ==
    [][\A p \in Procs :
          /\ MunmapReturns(p) =>
                 MappingGone(supt', frame_list', pagedir', mmap_list', p,
                             loc[p].first, loc[p].last, loc[p].mid)
          /\ PageUnmapped(p) /\ supt[p][loc[p].idx].status = "ON_SWAP" =>
                 swap_available'[supt[p][loc[p].idx].swap_index]
          /\ MunmapStarts(p) =>
                 \E j \in 1..Len(mmap_list[p]) :
                     /\ mmap_list[p][j].id = loc'[p].mid
                     /\ mmap_list[p][j].addr = loc'[p].first
          /\ pc[p] = "idle" /\ pc'[p] = "munmap_false" =>
                 ~HasMapping(p, loc'[p].mid)
          /\ MunmapFails(p) =>
                 UNCHANGED <<frame_list, clock_ptr, filesys_lock, frame_lock,
                             pool, mem, kdirty, swap_available, swap_data,
                             supt, pagedir, file, mmap_list>>]_vars

\* free (entry) of spte_destroy_func: the teardown of process p is done with
\* its entry for page u in this step
EntryDestroyed(p, u) ==
    /\ pc[p] \in {"exit", "td_remove"}
    /\ supt[p][u].status # "NONE"
    /\ supt'[p][u].status = "NONE"
    /\ halted' = ""

\* C22: when the teardown is done with an entry, then if the page was
\* ON_FRAME its frame-table entry is gone and the frame was not given back
\* to the allocator, if it was ON_SWAP its slot is free, and if it was
\* ALL_ZEROS or FROM_FILESYS neither the frame table nor the swap bitmap
\* nor the pool changed; once all entries are destroyed no frame-table entry
\* is owned by the process.
C22_TeardownReleases ==
    [][\A p \in Procs, u \in UPages :
          EntryDestroyed(p, u) =>
              /\ supt[p][u].status = "ON_FRAME" =>
                     /\ FrameIndex(frame_list', supt[p][u].kpage) = 0
                     /\ pool' = pool
              /\ supt[p][u].status = "ON_SWAP" =>
                     swap_available'[supt[p][u].swap_index]
              /\ supt[p][u].status \in {"ALL_ZEROS", "FROM_FILESYS"} =>
                     /\ frame_list' = frame_list
                     /\ swap_available' = swap_available
                     /\ pool' = pool
              /\ (\A v \in UPages : supt'[p][v].status = "NONE") =>
                     \A j \in 1..Len(frame_list') : frame_list'[j].t # p]_vars

\* ------------------------------------------------ the ids of sys_mmap
\* The kernel under programs that only map and unmap their file and exit.
MmapInit ==
    /\ workload = "mmap_ids"
    /\ frame_list = <<>>
    /\ clock_ptr = HandNull
    /\ filesys_lock = NoThread
    /\ frame_lock = NoThread
    /\ pool = Frames
    /\ mem = [k \in Frames |-> Junk]
    /\ kdirty = [k \in Frames |-> FALSE]
    /\ swap_available = [s \in Slots |-> TRUE]
    /\ swap_data = [s \in Slots |-> Junk]
    /\ supt = [p \in Procs |-> [u \in UPages |-> NoEntry]]
    /\ pagedir = [p \in Procs |-> [u \in UPages |-> NoPte]]
    /\ pc = [p \in Procs |-> "idle"]
    /\ loc = [p \in Procs |-> NoLoc]
    /\ halted = ""
    /\ logical = [p \in Procs |-> [u \in UPages |-> Zero]]
    /\ file \in {f \in [Procs -> UNION {[1..n -> Bytes] : n \in 0..NumUPages}] :
                    \A p \in Procs : f[p] \in FilesOf(workload, p)}
    /\ mmap_list = [p \in Procs |-> <<>>]
    /\ last_mid = [p \in Procs |-> 0]
    /\ file_descriptors = [p \in Procs |-> <<>>]
    /\ alarm_list = <<>>
    /\ alrm = [p \in Procs |-> NoAlarm]
    /\ timer_ticks = 0
    /\ thread_status = [p \in Procs |-> "READY"]

MmapNext ==
    \/ \E p \in Procs, u \in UPages : sys_mmap(p, u)
    \/ \E p \in Procs : sys_mmap_fail(p)
    \/ \E p \in Procs, m \in 1..MaxMmapId : sys_munmap(p, m)
    \/ \E p \in Procs : sys_munmap_false(p)
    \/ \E p \in Procs : vm_supt_munmap(p)
    \/ \E p \in Procs : vm_supt_munmap_switch(p)
    \/ \E p \in Procs : sys_exit(p)
    \/ \E p \in Procs, u \in UPages : spte_destroy_func(p, u)
    \/ \E p \in Procs : pagedir_destroy(p)

MmapSpec == MmapInit /\ [][MmapNext]_vars

\* the id that the sys_mmap of this step returns
ReturnedId(p) == mmap_list'[p][Len(mmap_list'[p])].id

\* C23: in one address space the ids that successful sys_mmap calls return
\* are strictly increasing and start at 1: the first is 1 and every later
\* one is greater than the one returned before it, whatever was unmapped in
\* between.
C23_MmapIdsIncrease ==
    [][\A p \in Procs :
          MmapSucceeds(p) =>
              IF last_mid[p] = 0 THEN ReturnedId(p) = 1
              ELSE ReturnedId(p) > last_mid[p]]_vars

\* ------------------------------------------------ the functions of page.c
\* a faulty variant of install_frame: a duplicate replaces the entry
install_frame_replace(spt, u, k) ==
    [ok |-> spt[u].status = "NONE",
     spt |-> [spt EXCEPT ![u] = [NoEntry EXCEPT !.status = "ON_FRAME",
                                                 !.kpage = k]]]

\* vm_supt_install_frame (supt, upage, kpage), page.c 62-77: what it returns
\* and the table after it.  hash_insert leaves the table as it is when it
\* finds an entry for upage.
install_frame(spt, u, k) ==
    IF spt[u].status = "NONE"
    THEN [ok |-> TRUE,
          spt |-> [spt EXCEPT ![u] = [NoEntry EXCEPT !.status = "ON_FRAME",
                                                      !.kpage = k]]]
    ELSE [ok |-> FALSE, spt |-> spt]

\* vm_supt_set_swap (supt, page, swap_index), page.c 95-105
set_swap(spt, u, s) ==
    IF spt[u].status = "NONE"
    THEN [ok |-> FALSE, spt |-> spt]
    ELSE [ok |-> TRUE, spt |-> [spt EXCEPT ![u] = spte_set_swap(@, s)]]

\* the call op on page u has returned ok to process p
Returned(p, op, u, ok) ==
    [NoLoc EXCEPT !.cont = op, !.upage = u,
                  !.ok = IF ok THEN "true" ELSE "false"]

\* The functions of page.c called one by one, by a thread in no other
\* call, on its own table; loc holds the last call and its result.
SuptInit ==
    /\ workload = "supt"
    /\ frame_list = <<>>
    /\ clock_ptr = HandNull
    /\ filesys_lock = NoThread
    /\ frame_lock = NoThread
    /\ pool = Frames
    /\ mem = [k \in Frames |-> Junk]
    /\ kdirty = [k \in Frames |-> FALSE]
    /\ swap_available = [s \in Slots |-> TRUE]
    /\ swap_data = [s \in Slots |-> Junk]
    /\ supt = [p \in Procs |-> [u \in UPages |-> NoEntry]]
    /\ pagedir = [p \in Procs |-> [u \in UPages |-> NoPte]]
    /\ pc = [p \in Procs |-> "idle"]
    /\ loc = [p \in Procs |-> NoLoc]
    /\ halted = ""
    /\ logical = [p \in Procs |-> [u \in UPages |-> Zero]]
    /\ file \in {f \in [Procs -> UNION {[1..n -> Bytes] : n \in 0..NumUPages}] :
                    \A p \in Procs : f[p] \in FilesOf(workload, p)}
    /\ mmap_list = [p \in Procs |-> <<>>]
    /\ last_mid = [p \in Procs |-> 0]
    /\ file_descriptors = [p \in Procs |-> <<>>]
    /\ alarm_list = <<>>
    /\ alrm = [p \in Procs |-> NoAlarm]
    /\ timer_ticks = 0
    /\ thread_status = [p \in Procs |-> "READY"]

supt_untouched == <<frame_list, clock_ptr, filesys_lock, frame_lock, pool, mem,
                    kdirty, swap_available, swap_data, pagedir, pc, logical,
                    workload, file, mmap_list, last_mid, file_descriptors,
                    alarm_list, alrm, timer_ticks, thread_status>>

vm_supt_install_frame(p, u, k) ==
    /\ Running
    /\ workload = "supt"
    /\ supt' = [supt EXCEPT ![p] = install_frame(@, u, k).spt]
    /\ loc' = [loc EXCEPT ![p] =
           Returned(p, "install_frame", u, install_frame(supt[p], u, k).ok)]
    /\ UNCHANGED halted
    /\ UNCHANGED supt_untouched

vm_supt_set_swap(p, u, s) ==
    /\ Running
    /\ workload = "supt"
    /\ supt' = [supt EXCEPT ![p] = set_swap(@, u, s).spt]
    /\ loc' = [loc EXCEPT ![p] =
           Returned(p, "set_swap", u, set_swap(supt[p], u, s).ok)]
    /\ UNCHANGED halted
    /\ UNCHANGED supt_untouched

\* vm_supt_set_dirty (supt, page, value), page.c 147-155
vm_supt_set_dirty(p, u, v) ==
    /\ Running
    /\ workload = "supt"
    /\ IF supt[p][u].status = "NONE"
       THEN Halt("Request page does not exist")
       ELSE /\ supt' = [supt EXCEPT ![p][u] = spte_set_dirty(@, v)]
            /\ loc' = [loc EXCEPT ![p] = Returned(p, "set_dirty", u, TRUE)]
            /\ UNCHANGED halted
            /\ UNCHANGED supt_untouched

\* vm_load_page, page.c 197-198, for an entry that is not resident: the
\* frame k is recorded
vm_load_page_set_frame(p, u, k) ==
    /\ Running
    /\ workload = "supt"
    /\ supt[p][u].status \in {"ALL_ZEROS", "ON_SWAP", "FROM_FILESYS"}
    /\ supt' = [supt EXCEPT ![p][u] = spte_set_frame(@, k)]
    /\ loc' = [loc EXCEPT ![p] = Returned(p, "load_page", u, TRUE)]
    /\ UNCHANGED halted
    /\ UNCHANGED supt_untouched

\* the eviction of vm_frame_alloc, swap.h 157-158, for a resident page:
\* vm_supt_set_swap, then vm_supt_set_dirty with the hardware dirty bits
vm_frame_alloc_set_victim(p, u, s, v) ==
    /\ Running
    /\ workload = "supt"
    /\ supt[p][u].status = "ON_FRAME"
    /\ supt' = [supt EXCEPT ![p][u] = spte_set_dirty(spte_set_swap(@, s), v)]
    /\ loc' = [loc EXCEPT ![p] = Returned(p, "evict", u, TRUE)]
    /\ UNCHANGED halted
    /\ UNCHANGED supt_untouched

\* vm_supt_munmap, page.c 243: hash_delete of the entry
vm_supt_munmap_delete(p, u) ==
    /\ Running
    /\ workload = "supt"
    /\ supt[p][u].status # "NONE"
    /\ supt' = [supt EXCEPT ![p][u] = NoEntry]
    /\ loc' = [loc EXCEPT ![p] = Returned(p, "munmap", u, TRUE)]
    /\ UNCHANGED halted
    /\ UNCHANGED supt_untouched

\* the functions are called on the table of one process
SuptProcs == {1}

SuptNext ==
    \/ \E p \in SuptProcs, u \in UPages : vm_supt_install_zeropage(p, u)
    \/ \E p \in SuptProcs, u \in UPages : vm_supt_install_filesys(p, u)
    \/ \E p \in SuptProcs, u \in UPages, k \in Frames :
           vm_supt_install_frame(p, u, k)
    \/ \E p \in SuptProcs, u \in UPages, s \in Slots : vm_supt_set_swap(p, u, s)
    \/ \E p \in SuptProcs, u \in UPages, v \in BOOLEAN :
           vm_supt_set_dirty(p, u, v)
    \/ \E p \in SuptProcs, u \in UPages, k \in Frames :
           vm_load_page_set_frame(p, u, k)
    \/ \E p \in SuptProcs, u \in UPages, s \in Slots, v \in BOOLEAN :
           vm_frame_alloc_set_victim(p, u, s, v)
    \/ \E p \in SuptProcs, u \in UPages : vm_supt_munmap_delete(p, u)

SuptSpec == SuptInit /\ [][SuptNext]_vars

\* process p has a call op on page u behind it that returned ok
HasReturned(l, op, ok) == l.cont = op /\ l.ok = ok

\* C24: after any sequence of installers, vm_supt_set_swap, load,
\* eviction and unmap every entry has a kpage exactly when its status is
\* ON_FRAME (a table has one entry per upage: it is keyed by upage).
\* vm_supt_install_frame on a upage that has an entry returns false and
\* leaves the table as it was; vm_supt_set_swap on a upage without an entry
\* returns false and changes nothing.
C24_SptEntriesWellFormed ==
    /\ [](\A p \in Procs, u \in UPages :
             supt[p][u].status # "NONE" =>
                 (supt[p][u].kpage # NULL <=> supt[p][u].status = "ON_FRAME"))
    /\ [][\A p \in Procs, u \in UPages :
             /\ loc'[p] # loc[p] /\ loc'[p].upage = u
                /\ loc'[p].cont = "install_frame"
                /\ supt[p][u].status # "NONE" =>
                    loc'[p].ok = "false" /\ supt' = supt
             /\ loc'[p] # loc[p] /\ loc'[p].upage = u
                /\ loc'[p].cont = "set_swap"
                /\ supt[p][u].status = "NONE" =>
                    loc'[p].ok = "false" /\ supt' = supt]_vars

\* a duplicate vm_supt_install_frame has returned false, on a page that is
\* in swap
C24_Witness ==
    \E p \in Procs :
        /\ HasReturned(loc[p], "install_frame", "false")
        /\ supt[p][loc[p].upage].status = "ON_SWAP"

\* C25: while an entry lives its dirty flag, once true, stays true through
\* vm_supt_set_dirty (also with value false), vm_supt_set_swap and the
\* eviction; it may be false again only when the entry has just become
\* ON_FRAME.  vm_supt_set_dirty returns only for a upage that has an entry:
\* without one the kernel stops.
C25_DirtyMonotonic ==
    [][\A p \in Procs, u \in UPages :
          /\ supt[p][u].status # "NONE" /\ supt[p][u].is_dirty
             /\ supt'[p][u].status # "NONE" =>
                 \/ supt'[p][u].is_dirty
                 \/ /\ supt[p][u].status # "ON_FRAME"
                    /\ supt'[p][u].status = "ON_FRAME"
          /\ loc'[p] # loc[p] /\ loc'[p].upage = u
             /\ loc'[p].cont = "set_dirty" =>
                 supt[p][u].status # "NONE"]_vars

\* a dirty page was swapped out and loaded again, and its entry is still
\* dirty
C25_Witness ==
    \E p \in Procs :
        /\ HasReturned(loc[p], "load_page", "true")
        /\ supt[p][loc[p].upage].status = "ON_FRAME"
        /\ supt[p][loc[p].upage].is_dirty

\* ---------------------------------------------------------------- C26
\* thread p takes a step of vm_supt_munmap from position c
MunmapStep(p, c) == pc[p] = c /\ pc'[p] # c /\ halted' = ""

\* the page that p's vm_supt_munmap is unmapping is dirty: its entry's flag,
\* the dirty bit of upage, or for a resident page the dirty bit of kpage
PageDirty(p) ==
    LET spte == supt[p][loc[p].idx]
    IN  \/ spte.is_dirty
        \/ pagedir[p][loc[p].idx].dirty
        \/ /\ spte.status = "ON_FRAME"
           /\ spte.kpage # NULL
           /\ kdirty[spte.kpage]

\* C26: vm_supt_munmap writes a page to the file iff the page is dirty.  A
\* resident page goes on to file_write_at iff it is dirty, and the write
\* finds the page mapped and its frame not freed and leaves them so.  A
\* dirty swapped page has its contents in its slot when the switch is
\* reached; a swapped page's slot is written to the file iff the page is
\* dirty, and the slot is free afterwards.  The file changes in no other
\* step.
C26_MunmapWritesIffDirty ==
    [][/\ \A p \in Procs :
            LET u == loc[p].idx
                spte == supt[p][u]
                off == munmap_offset(loc[p]) + 1
            IN  /\ MunmapStep(p, "mun_switch") /\ spte.status = "ON_FRAME" =>
                    /\ pc'[p] = "mun_write" <=> PageDirty(p)
                    /\ pc'[p] \in {"mun_write", "mun_free"}
                    /\ file' = file
                /\ pc[p] = "mun_switch" /\ spte.status = "ON_SWAP"
                   /\ PageDirty(p) =>
                    swap_occupied(swap_available, spte.swap_index)
                /\ MunmapStep(p, "mun_switch") /\ spte.status = "ON_SWAP" =>
                    /\ swap_available'[spte.swap_index]
                    /\ IF PageDirty(p)
                       THEN file' = [file EXCEPT ![p][off] =
                                         swap_data[spte.swap_index]]
                       ELSE file' = file
                /\ MunmapStep(p, "mun_switch")
                   /\ spte.status = "FROM_FILESYS" => file' = file
                /\ MunmapStep(p, "mun_write") =>
                    /\ pc'[p] = "mun_free"
                    /\ pagedir[p][u].present /\ pagedir'[p][u].present
                    /\ pagedir[p][u].kpage \notin pool'
                    /\ file' = [file EXCEPT ![p][off] =
                                      mem[pagedir[p][u].kpage]]
       /\ file' # file =>
            \E p \in Procs :
                /\ pc[p] \in {"mun_write", "mun_switch"}
                /\ pc'[p] # pc[p]
                /\ PageDirty(p)]_vars

\* ------------------------------------------------ file descriptors
\* The system calls of syscall.c that look up a file descriptor, under
\* programs that open and close files and pass open, closed and unknown
\* descriptors (workload "files").  Every call is two steps: lock_acquire
\* (&filesys_lock), then the rest of the call up to its return.
FdInit ==
    /\ workload = "files"
    /\ frame_list = <<>>
    /\ clock_ptr = HandNull
    /\ filesys_lock = NoThread
    /\ frame_lock = NoThread
    /\ pool = Frames
    /\ mem = [k \in Frames |-> Junk]
    /\ kdirty = [k \in Frames |-> FALSE]
    /\ swap_available = [s \in Slots |-> TRUE]
    /\ swap_data = [s \in Slots |-> Junk]
    /\ supt = [p \in Procs |-> [u \in UPages |-> NoEntry]]
    /\ pagedir = [p \in Procs |-> [u \in UPages |-> NoPte]]
    /\ pc = [p \in Procs |-> "idle"]
    /\ loc = [p \in Procs |-> NoLoc]
    /\ halted = ""
    /\ logical = [p \in Procs |-> [u \in UPages |-> Zero]]
    /\ file = [p \in Procs |-> <<>>]
    /\ mmap_list = [p \in Procs |-> <<>>]
    /\ last_mid = [p \in Procs |-> 0]
    /\ file_descriptors = [p \in Procs |-> <<>>]
    /\ alarm_list = <<>>
    /\ alrm = [p \in Procs |-> NoAlarm]
    /\ timer_ticks = 0
    /\ thread_status = [p \in Procs |-> "READY"]

fd_untouched == <<frame_list, clock_ptr, frame_lock, pool, mem, kdirty,
                  swap_available, swap_data, supt, pagedir, logical, workload,
                  file, mmap_list, last_mid, alarm_list, alrm, timer_ticks,
                  thread_status>>

\* the descriptors a program passes: open ones, closed ones, ones that
\* never existed
FdArgs == 2..MaxFd

\* find_file_desc (t, fd), syscall.c lines 533-556: index of the descriptor
\* with this id on the thread's list, 0 if there is none
find_file_desc(list, fd) ==
    IF \E j \in 1..Len(list) : list[j].id = fd
    THEN CHOOSE j \in 1..Len(list) : list[j].id = fd
    ELSE 0

\* the id sys_open gives a new descriptor, lines 335-341
next_fd(list) == IF list = <<>> THEN 3 ELSE list[Len(list)].id + 1

\* lock_acquire (&filesys_lock) at the start of the system call `call`.  A
\* thread waits while another holds the lock; lock_acquire asserts that the
\* caller does not hold it already.
lock_acquire_filesys_lock(p, call, fd) ==
    /\ Running
    /\ pc[p] = "idle"
    /\ workload = "files"
    /\ IF filesys_lock = p
       THEN Halt("assertion !lock_held_by_current_thread (lock) failed")
       ELSE /\ filesys_lock = NoThread
            /\ filesys_lock' = p
            /\ pc' = [pc EXCEPT ![p] = call]
            /\ loc' = [loc EXCEPT ![p] = [NoLoc EXCEPT !.fd = fd]]
            /\ UNCHANGED <<fd_untouched, halted, file_descriptors>>

\* the return of a system call: with lock_release (&filesys_lock) before it,
\* or without
sys_return(p, released) ==
    /\ filesys_lock' = IF released THEN NoThread ELSE filesys_lock
    /\ pc' = [pc EXCEPT ![p] = "idle"]
    /\ loc' = [loc EXCEPT ![p] = NoLoc]
    /\ UNCHANGED <<fd_untouched, halted>>

\* sys_open, lines 317-347
sys_open(p) == lock_acquire_filesys_lock(p, "sys_open", 0)

\* filesys_open fails: the lock is released, -1 is returned; or the new
\* descriptor is put at the back of the list and its id returned
sys_open_return(p) ==
    /\ Running
    /\ pc[p] = "sys_open"
    /\ \/ UNCHANGED file_descriptors
       \/ /\ next_fd(file_descriptors[p]) <= MaxFd
          /\ file_descriptors' = [file_descriptors EXCEPT ![p] =
                 Append(@, [id |-> next_fd(@), file |-> TRUE])]
    /\ sys_return(p, TRUE)

\* sys_filesize, lines 349-363
sys_filesize(p, fd) == lock_acquire_filesys_lock(p, "sys_filesize", fd)

sys_filesize_return(p) ==
    /\ Running
    /\ pc[p] = "sys_filesize"
    /\ UNCHANGED file_descriptors
    /\ sys_return(p, TRUE)

\* sys_seek, lines 365-376: with a descriptor, file_seek and lock_release;
\* without one, return
sys_seek(p, fd) == lock_acquire_filesys_lock(p, "sys_seek", fd)

sys_seek_return(p) ==
    /\ Running
    /\ pc[p] = "sys_seek"
    /\ UNCHANGED file_descriptors
    /\ LET j == find_file_desc(file_descriptors[p], loc[p].fd)
       IN  sys_return(p, j # 0 /\ file_descriptors[p][j].file)

\* sys_tell, lines 378-391
sys_tell(p, fd) == lock_acquire_filesys_lock(p, "sys_tell", fd)

sys_tell_return(p) ==
    /\ Running
    /\ pc[p] = "sys_tell"
    /\ UNCHANGED file_descriptors
    /\ sys_return(p, TRUE)

\* sys_close, lines 393-402: a descriptor that is found leaves the list
sys_close(p, fd) == lock_acquire_filesys_lock(p, "sys_close", fd)

sys_close_return(p) ==
    /\ Running
    /\ pc[p] = "sys_close"
    /\ LET j == find_file_desc(file_descriptors[p], loc[p].fd)
       IN  file_descriptors' =
               IF j # 0 /\ file_descriptors[p][j].file
               THEN [file_descriptors EXCEPT ![p] = RemoveAt(@, j)]
               ELSE file_descriptors
    /\ sys_return(p, TRUE)

\* sys_read (lines 410-447), sys_write (lines 449-478) and sys_mmap (lines
\* 559-624) for a descriptor that is not on the list: ret = -1, respectively
\* MMAP_FAIL, then lock_release
sys_read_no_file(p, fd) ==
    /\ find_file_desc(file_descriptors[p], fd) = 0
    /\ lock_acquire_filesys_lock(p, "sys_read", fd)

sys_write_no_file(p, fd) ==
    /\ find_file_desc(file_descriptors[p], fd) = 0
    /\ lock_acquire_filesys_lock(p, "sys_write", fd)

sys_mmap_no_file(p, fd) ==
    /\ find_file_desc(file_descriptors[p], fd) = 0
    /\ lock_acquire_filesys_lock(p, "sys_mmap", fd)

sys_no_file_return(p) ==
    /\ Running
    /\ pc[p] \in {"sys_read", "sys_write", "sys_mmap"}
    /\ UNCHANGED file_descriptors
    /\ sys_return(p, TRUE)

FdNext ==
    \/ \E p \in Procs : sys_open(p)
    \/ \E p \in Procs : sys_open_return(p)
    \/ \E p \in Procs, fd \in FdArgs : sys_filesize(p, fd)
    \/ \E p \in Procs : sys_filesize_return(p)
    \/ \E p \in Procs, fd \in FdArgs : sys_seek(p, fd)
    \/ \E p \in Procs : sys_seek_return(p)
    \/ \E p \in Procs, fd \in FdArgs : sys_tell(p, fd)
    \/ \E p \in Procs : sys_tell_return(p)
    \/ \E p \in Procs, fd \in FdArgs : sys_close(p, fd)
    \/ \E p \in Procs : sys_close_return(p)
    \/ \E p \in Procs, fd \in FdArgs : sys_read_no_file(p, fd)
    \/ \E p \in Procs, fd \in FdArgs : sys_write_no_file(p, fd)
    \/ \E p \in Procs, fd \in FdArgs : sys_mmap_no_file(p, fd)
    \/ \E p \in Procs : sys_no_file_return(p)

FdSpec == FdInit /\ [][FdNext]_vars

\* ---------------------------------------------------------------- C27
\* C27: a thread that is not inside a system call does not hold
\* filesys_lock: every system call that acquires the lock has released it
\* when it returns, whatever descriptor it was given.
C27_FilesysLockReleased ==
    \A p \in Procs : pc[p] = "idle" => filesys_lock # p

\* ---------------------------------------------------------------- C28
\* C28: no present mapping of a page directory points to a frame that is
\* back in the physical allocator.
C28_NoMappingToFreedFrame ==
    \A p \in Procs, u \in UPages :
        pagedir[p][u].present => pagedir[p][u].kpage \notin pool

\* ------------------------------------------------ the alarm
\* threads/alarm.c under threads that sleep (workload "alarm"): alarm_set is
\* called by the threads, the timer advances, alarm_check runs in the timer
\* interrupt.
AlarmInit ==
    /\ workload = "alarm"
    /\ frame_list = <<>>
    /\ clock_ptr = HandNull
    /\ filesys_lock = NoThread
    /\ frame_lock = NoThread
    /\ pool = Frames
    /\ mem = [k \in Frames |-> Junk]
    /\ kdirty = [k \in Frames |-> FALSE]
    /\ swap_available = [s \in Slots |-> TRUE]
    /\ swap_data = [s \in Slots |-> Junk]
    /\ supt = [p \in Procs |-> [u \in UPages |-> NoEntry]]
    /\ pagedir = [p \in Procs |-> [u \in UPages |-> NoPte]]
    /\ pc = [p \in Procs |-> "idle"]
    /\ loc = [p \in Procs |-> NoLoc]
    /\ halted = ""
    /\ logical = [p \in Procs |-> [u \in UPages |-> Zero]]
    /\ file = [p \in Procs |-> <<>>]
    /\ mmap_list = [p \in Procs |-> <<>>]
    /\ last_mid = [p \in Procs |-> 0]
    /\ file_descriptors = [p \in Procs |-> <<>>]
    /\ alarm_list = <<>>
    /\ alrm = [p \in Procs |-> NoAlarm]
    /\ timer_ticks = 0
    /\ thread_status = [p \in Procs |-> "READY"]

alarm_untouched == <<frame_list, clock_ptr, filesys_lock, frame_lock, pool, mem,
                     kdirty, swap_available, swap_data, supt, pagedir, logical,
                     workload, file, mmap_list, last_mid, file_descriptors>>

\* alarm_set (ticks), lines 21-27: nothing is done for ticks = 0; otherwise
\* the thread's alarm gets its owner and its deadline.  The call and its
\* argument are recorded in loc.
alarm_set(p, ticks) ==
    /\ Running
    /\ pc[p] = "idle"
    /\ workload = "alarm"
    /\ thread_status[p] = "READY"
    /\ loc' = [loc EXCEPT ![p] = [NoLoc EXCEPT !.cont = "alarm_set",
                                               !.n = ticks]]
    /\ IF ticks = 0
       THEN UNCHANGED <<pc, alrm>>
       ELSE /\ alrm' = [alrm EXCEPT ![p] = [thrd |-> p,
                                            ticks |-> ticks + timer_ticks]]
            /\ pc' = [pc EXCEPT ![p] = "alarm_push"]
    /\ UNCHANGED <<alarm_untouched, halted, alarm_list, timer_ticks,
                   thread_status>>

\* alarm_set, lines 30-33, with interrupts off: list_push_back and
\* thread_block.  The thread goes on when it has been unblocked.
alarm_set_block(p) ==
    /\ Running
    /\ pc[p] = "alarm_push"
    /\ alarm_list' = Append(alarm_list, p)
    /\ thread_status' = [thread_status EXCEPT ![p] = "BLOCKED"]
    /\ pc' = [pc EXCEPT ![p] = "alarm_blocked"]
    /\ UNCHANGED <<alarm_untouched, halted, loc, alrm, timer_ticks>>

\* the timer interrupt counts a tick
timer_interrupt ==
    /\ Running
    /\ workload = "alarm"
    /\ timer_ticks < MaxTicks
    /\ timer_ticks' = timer_ticks + 1
    /\ UNCHANGED <<alarm_untouched, halted, pc, loc, alarm_list, alrm,
                   thread_status>>

\* the alarms that alarm_check dismisses, line 43
alarm_due(a, now) == a.ticks <= now

\* alarm_check, lines 37-48, and alarm_dismiss, lines 51-56.  Every alarm on
\* the list whose deadline has come is dismissed: list_remove, then
\* thread_unblock (&alrm->elem).  The argument is the address of the list
\* element inside the thread's alarm, not alrm->thrd, and thread_unblock
\* takes it for a struct thread: either its ASSERT (is_thread (t)) fails, or
\* the memory there passes for a blocked thread and is put on the ready
\* list.  The alarm's thread is not touched.
alarm_check ==
    /\ Running
    /\ workload = "alarm"
    /\ \E j \in 1..Len(alarm_list) : alarm_due(alrm[alarm_list[j]], timer_ticks)
    /\ \/ Halt("assertion is_thread (t) failed")
       \/ /\ alarm_list' = SelectSeq(alarm_list,
                 LAMBDA q : ~alarm_due(alrm[q], timer_ticks))
          /\ UNCHANGED <<alarm_untouched, halted, pc, loc, alrm, timer_ticks,
                         thread_status>>

AlarmNext ==
    \/ \E p \in Procs, ticks \in 0..MaxSleep : alarm_set(p, ticks)
    \/ \E p \in Procs : alarm_set_block(p)
    \/ timer_interrupt
    \/ alarm_check

AlarmSpec == AlarmInit /\ [][AlarmNext]_vars

\* ---------------------------------------------------------------- C29
\* how often thread p is on alarm_list
TimesListed(list, p) == Cardinality({j \in 1..Len(list) : list[j] = p})

\* this step is a run of alarm_check: no thread moves, the timer stands
AlarmCheckStep ==
    /\ pc' = pc /\ loc' = loc /\ timer_ticks' = timer_ticks
    /\ <<alarm_list, thread_status, halted>>' #
           <<alarm_list, thread_status, halted>>

\* C29: alarm_set (t) with t > 0 at tick T gives the caller's alarm the
\* deadline T + t and blocks the caller with its alarm on alarm_list
\* exactly once; a blocked thread is on the list exactly once and becomes
\* ready only when its deadline has come; an alarm_check that runs when
\* deadlines have come removes those alarms and unblocks their threads, and
\* leaves the later alarms listed and their threads blocked; alarm_set (0)
\* returns without blocking.
C29_AlarmSleep ==
    [][/\ \A p \in Procs :
            /\ thread_status[p] = "READY" /\ thread_status'[p] = "BLOCKED" =>
                /\ loc[p].n > 0
                /\ TimesListed(alarm_list', p) = 1
                /\ alrm'[p].thrd = p
            /\ pc[p] = "idle" /\ pc'[p] = "alarm_push" =>
                alrm'[p].ticks = timer_ticks + loc'[p].n
            /\ thread_status'[p] = "BLOCKED" => TimesListed(alarm_list', p) = 1
            /\ thread_status[p] = "BLOCKED" /\ thread_status'[p] = "READY" =>
                alarm_due(alrm[p], timer_ticks)
            /\ loc'[p] # loc[p] /\ loc'[p].cont = "alarm_set"
               /\ loc'[p].n = 0 =>
                /\ pc'[p] = "idle"
                /\ thread_status'[p] = "READY"
                /\ alarm_list' = alarm_list
       /\ AlarmCheckStep =>
            \A j \in 1..Len(alarm_list) :
                LET q == alarm_list[j]
                IN  IF alarm_due(alrm[q], timer_ticks)
                    THEN /\ TimesListed(alarm_list', q) = 0
                         /\ thread_status'[q] = "READY"
                    ELSE /\ TimesListed(alarm_list', q) = 1
                         /\ thread_status'[q] = "BLOCKED"]_vars

====
